---- MODULE Spec2Model ----
(***************************************************************************)
(* A model of the execution pipeline of py-gcmi: the requirements registry *)
(* and validator (gcmi/utils/requirements.py), the requirements-check      *)
(* middleware (gcmi/middleware/requirements.py), the CFL guard             *)
(* (gcmi/middleware/core.py) and the run loop (gcmi/core/api.py).          *)
(*                                                                         *)
(* Python values are tagged records [kind, v, m]; a dict used as a diag is *)
(* a function from its keys to their values, so  k \in DOMAIN d  is the    *)
(* Python test  k in d.  Floats are modelled as exact rationals [n, d].    *)
(***************************************************************************)
EXTENDS Integers, Sequences, FiniteSets, TLC

VARIABLES
  \* attributes bolted on callables: __gcmi_requires__ and __wrapped__
  fnRequires, fnWrapped,
  \* closure of one wrapper returned by with_requirements_check
  extra, max_checks, raise_on_error, record_warnings, call_count,
  \* the dict object a step may keep and hand out again on every call
  stepDiag,
  \* observation of the wrapper's invocations: how many, and the last one
  invocations, last,
  \* run_fn: its arguments, its locals, and its position in the loop
  n_steps, hooks, init, run_params, fiter, run_dt, pc, k, st, run_diag, report, hookIdx,
  \* the module-level step_fn the loop calls
  step_fn,
  \* the monotonic clock read by perf_counter()
  clock,
  \* observation of the run: forcings pulled, step calls made, what each
  \* iteration's step returned, every call of a hook, and the failure if any
  pulls, stepCalls, stepResults, hookLog, runExc,
  \* the forcing_stream argument of run_fn, and the arguments of every
  \* call of the step made by the loop
  run_stream, stepLog,
  \* closure of one wrapper returned by with_cfl_guard: cfl_max and what
  \* wave_speed_cb returns, and the step it wraps
  cfl_max, wave_speed, inner_step,
  \* one call of that wrapper: its arguments, its locals, its position
  cfl_state, cfl_forcing, cfl_params, cfl_dt,
  vmax, dx, cfl, n_sub, dt_sub, cfl_st, last_diag, sub_i, cfl_pc,
  \* observation of the call: the calls of the wrapped step made so far,
  \* the divisors of the divisions performed, what was returned or raised
  innerCalls, cflRet, cflExc,
  \* a run over a stack of middleware: which loop drives it, the wrappers
  \* from the outermost in, what the innermost step returns, the wave speed
  \* of a CFL guard in the stack, the params object when the run began and
  \* now, and the loop's n_steps, position, k, st, dt and report
  stk_runner, stk_stack, stk_base, stk_wave, stk_params0, stk_params,
  stk_n, stk_pc, stk_k, stk_st, stk_dt, stk_report,
  \* observation of that run: the params every callable of the stack was
  \* handed, the notifications of the observer, what the stack raised and
  \* what left the loop, and whether the innermost step returned a diag
  \* that is None or not a dict
  stk_seen, stk_notified, stk_stepExc, stk_exc, stk_badDiag,
  \* the registry: every call of requires so far, and one call of
  \* get_requirements: its argument, its locals cur, seen and reqs, its
  \* position, and the links its loop has visited
  attachLog, walk_fn, walk_cur, walk_seen, walk_reqs, walk_pc, walk_visits,
  \* one call of validate_requirements: its arguments, its lists errors and
  \* warns, its position, and what each pass of its loop did
  val_state, val_params, val_forcing, val_reqs, val_errors, val_warns, val_pc, val_out,
  \* one dotted-path resolution: the mapping and the path, split at the
  \* dots, and what _get_path of utils/requirements.py and _get_path of
  \* utils/struct.py (behind take_nested) gave for them
  path_d, path_p, path_req, path_struct,
  \* closure of one wrapper returned by with_hyperdiff, with_flux_limiter,
  \* with_positivity, with_energy_fix or with_conservation_projection:
  \* which one, its coeff and its vars, and what the step it wraps returns
  tf_kind, tf_coeff, tf_vars, tf_inner,
  \* one call of that wrapper: its arguments (xp among them), its locals
  \* st and dg, the position of its loop over vars, and where it is
  tf_args, tf_st, tf_dg, tf_i, tf_pc,
  \* observation of the call: the calls of the wrapped step, what the
  \* operator did for every entry it was applied to, what was returned or
  \* raised
  tf_calls, tf_applied, tf_ret, tf_exc,
  \* runs of run_fn with the identity step_fn of api.py, one after the
  \* other on the same arguments: init, params, n_steps, the forcing source
  \* (an object the runs share) and the budget observers; which run it is,
  \* and its locals st, dt, fiter, k and diag, its report and its position
  id_init, id_params, id_n, id_stream, id_hooks,
  id_run, id_st, id_dt, id_fiter, id_k, id_diag, id_report, id_hi, id_pc,
  \* observation of the runs: the state held after every iteration, the
  \* state every observer was handed, and what each run returned
  id_held, id_seen, id_final

reqVars == <<fnRequires, fnWrapped, extra, max_checks, raise_on_error,
             record_warnings, call_count, stepDiag, invocations, last>>

runVars == <<n_steps, hooks, init, run_params, fiter, run_dt, pc, k, st, run_diag, report,
             hookIdx, step_fn, clock, pulls, stepCalls, stepResults, hookLog, runExc,
             run_stream, stepLog>>

cflVars == <<cfl_max, wave_speed, inner_step, cfl_state, cfl_forcing, cfl_params,
             cfl_dt, vmax, dx, cfl, n_sub, dt_sub, cfl_st, last_diag, sub_i, cfl_pc,
             innerCalls, cflRet, cflExc>>

stkVars == <<stk_runner, stk_stack, stk_base, stk_wave, stk_params0, stk_params,
             stk_n, stk_pc, stk_k, stk_st, stk_dt, stk_report,
             stk_seen, stk_notified, stk_stepExc, stk_exc, stk_badDiag>>

regVars == <<attachLog, walk_fn, walk_cur, walk_seen, walk_reqs, walk_pc, walk_visits>>

valVars == <<val_state, val_params, val_forcing, val_reqs, val_errors, val_warns,
             val_pc, val_out>>

pathVars == <<path_d, path_p, path_req, path_struct>>

\* the subsystems added after the six above
tfVars == <<tf_kind, tf_coeff, tf_vars, tf_inner, tf_args, tf_st, tf_dg, tf_i, tf_pc,
            tf_calls, tf_applied, tf_ret, tf_exc>>

idVars == <<id_init, id_params, id_n, id_stream, id_hooks, id_run, id_st, id_dt, id_fiter,
            id_k, id_diag, id_report, id_hi, id_pc, id_held, id_seen, id_final>>

auxVars == <<pathVars, tfVars, idVars>>

vars == <<reqVars, runVars, cflVars, stkVars, regVars, valVars, auxVars>>

----------------------------------------------------------------------------
\* Bounds of the model.
MaxChecks == 2
MaxCalls == 3
MaxSteps == 2
MaxHooks == 2
MaxTick == 1
MaxFailAt == 2
MaxLayers == 2
MaxIters == 2
MaxAttach == 2
MaxReqs == 2
MaxPathLen == 3
MaxRuns == 2

----------------------------------------------------------------------------
\* Python values.
NoneV == [kind |-> "none", v |-> 0, m |-> <<>>]
IntV(n) == [kind |-> "int", v |-> n, m |-> <<>>]
StrV == [kind |-> "str", v |-> 0, m |-> <<>>]
MapV(f) == [kind |-> "map", v |-> 0, m |-> f]
EmptyMap == MapV(<<>>)

----------------------------------------------------------------------------
\* gcmi/utils/requirements.py

Requirement(where, path, required, type, predicate, message, severity) ==
  [where |-> where, path |-> path, required |-> required, type |-> type,
   predicate |-> predicate, message |-> message, severity |-> severity]

Violation(where, path, severity, message, requirement) ==
  [where |-> where, path |-> path, severity |-> severity,
   message |-> message, requirement |-> requirement]

Upper(severity) == IF severity = "error" THEN "ERROR" ELSE "WARN"

\* RequirementError.__init__: the header and one line per violation.
RequirementError(violations) ==
  [type |-> "RequirementError",
   violations |-> violations,
   header |-> "Requirements not satisfied:",
   lines |-> [i \in 1..Len(violations) |->
               [severity |-> Upper(violations[i].severity),
                where |-> violations[i].where,
                path |-> violations[i].path,
                message |-> violations[i].message]]]

NoError == [type |-> "none", violations |-> <<>>, header |-> "", lines |-> <<>>]
StepError == [type |-> "StepError", violations |-> <<>>, header |-> "", lines |-> <<>>]

\* _get_path: repeated key lookup; a KeyError carries one of two messages.
RECURSIVE _get_path(_, _)
\* a lookup that finds None wherever a segment is missing
_get_path_found(cur, path) == [ok |-> TRUE, val |-> NoneV, err |-> ""]

_get_path(cur, path) ==
  IF path = <<>> THEN [ok |-> TRUE, val |-> cur, err |-> ""]
  ELSE IF cur.kind # "map"
    THEN [ok |-> FALSE, val |-> NoneV, err |-> "encountered non-mapping type"]
  ELSE IF Head(path) \notin DOMAIN cur.m
    THEN [ok |-> FALSE, val |-> NoneV, err |-> "Missing key"]
  ELSE _get_path(cur.m[Head(path)], Tail(path))

\* get_requirements: walk the __wrapped__ chain, guarded by the seen set.
RECURSIVE ChainWalk(_, _, _)
ChainWalk(cur, seen, reqs) ==
  IF cur = 0 \/ cur \in seen THEN reqs
  ELSE ChainWalk(fnWrapped[cur], seen \cup {cur}, reqs \o fnRequires[cur])

get_requirements(fn) == ChainWalk(fn, {}, <<>>)

\* a container that is None read as an empty mapping
get_container_or_empty(where, state, params, forcing) ==
  LET c == CASE where = "state" -> state
             [] where = "params" -> params
             [] where = "forcing" -> forcing
             [] OTHER -> NoneV
  IN IF c.kind = "none" THEN EmptyMap ELSE c

get_container(where, state, params, forcing) ==
  CASE where = "state" -> state
    [] where = "params" -> params
    [] where = "forcing" -> forcing
    [] OTHER -> NoneV

\* an isinstance that accepts every value
IsInstance_any(value, type) == TRUE

\* isinstance(value, r.type) for the type constraints the model uses.
IsInstance(value, type) ==
  CASE type = "number" -> value.kind = "int"
    [] type = "str" -> value.kind = "str"
    [] type = "mapping" -> value.kind = "map"
    [] OTHER -> FALSE

\* r.predicate(value) for the predicate  lambda r: r > 0 : comparing a
\* non-number with 0 raises.
\* a predicate whose failure to evaluate goes unnoticed
PredicateRaises_never(predicate, value) == FALSE

PredicateRaises(predicate, value) == predicate = "positive" /\ value.kind # "int"
PredicateOk(predicate, value) == predicate = "positive" /\ value.kind = "int" /\ value.v > 0

MessageOr(r, fallback) == IF r.message # "" THEN r.message ELSE fallback

\* One pass of the loop body of validate_requirements: the violation the
\* requirement r yields, as a sequence of length 0 or 1.
CheckRequirement(r, state, params, forcing) ==
  LET container == get_container(r.where, state, params, forcing)
      V(msg) == <<Violation(r.where, r.path, r.severity, msg, r)>>
  IN IF container.kind = "none" THEN V("Container is None; cannot check path")
     ELSE LET res == _get_path(container, r.path) IN
       IF ~res.ok
         THEN IF r.required THEN V(MessageOr(r, res.err)) ELSE <<>>
       ELSE IF r.type # "none" /\ ~IsInstance(res.val, r.type)
         THEN V(MessageOr(r, "Expected type"))
       ELSE IF r.predicate # "none"
         THEN IF PredicateRaises(r.predicate, res.val)
                THEN V(MessageOr(r, "Predicate raised"))
              ELSE IF ~PredicateOk(r.predicate, res.val)
                THEN V(MessageOr(r, "Predicate returned False"))
              ELSE <<>>
       ELSE <<>>

\* (errors if r.severity == "error" else warns).append(v)
\* an append that files every violation under errors
AppendViolation_all_errors(acc, vs) ==
  IF vs = <<>> THEN acc ELSE [acc EXCEPT !.errors = Append(@, vs[1])]

AppendViolation(acc, vs) ==
  IF vs = <<>> THEN acc
  ELSE IF vs[1].severity = "error"
    THEN [acc EXCEPT !.errors = Append(@, vs[1])]
    ELSE [acc EXCEPT !.warns = Append(@, vs[1])]

RECURSIVE ValidateFrom(_, _, _, _, _)
ValidateFrom(acc, requirements, state, params, forcing) ==
  IF requirements = <<>> THEN acc
  ELSE ValidateFrom(
         AppendViolation(acc, CheckRequirement(Head(requirements), state, params, forcing)),
         Tail(requirements), state, params, forcing)

validate_requirements(state, params, forcing, requirements) ==
  ValidateFrom([errors |-> <<>>, warns |-> <<>>], requirements, state, params, forcing)

----------------------------------------------------------------------------
\* gcmi/middleware/requirements.py: with_requirements_check

\* The callables of the model: the wrapper that with_requirements_check
\* returns, the step it wraps, and a function that step may itself wrap.
WrapperFn == 1
StepFn == 2
InnerFn == 3
Fns == {WrapperFn, StepFn, InnerFn}

\* a wrapper that never stops checking
should_check_always(count, max) == TRUE

\* should_check with the bound taken inclusively
should_check_inclusive(count, max) == count <= max

\* should_check = call_count < max_checks
should_check(count, max) == count < max

\* the raise condition with raise_on_error read inverted
RaisesOnError_inverted(errors, roe) == errors # <<>> /\ ~roe

\* if errors and raise_on_error
RaisesOnError(errors, roe) == errors # <<>> /\ roe

\* the record condition looking at the errors only
ShouldRecord_errors_only(checking, reqs, rw, errors, warns) ==
  checking /\ reqs # <<>> /\ rw /\ errors # <<>>

\* if should_check and reqs and record_warnings: if errors or warns
ShouldRecord(checking, reqs, rw, errors, warns) ==
  checking /\ reqs # <<>> /\ rw /\ (errors # <<>> \/ warns # <<>>)

Brief(violations) ==
  [i \in 1..Len(violations) |->
    [where |-> violations[i].where, path |-> violations[i].path,
     message |-> violations[i].message]]

\* the record appended to diag["gcmi_requirements"]
RequirementsRecord(count, max, reqs, errors, warns) ==
  [call |-> count, max_checks |-> max, checked |-> Len(reqs),
   errors |-> Brief(errors), warnings |-> Brief(warns)]

\* (diag.setdefault("gcmi_requirements", [])).append(rec)
AppendRequirements(diag, rec) ==
  IF "gcmi_requirements" \in DOMAIN diag
    THEN [diag EXCEPT !["gcmi_requirements"] = Append(@, rec)]
    ELSE diag @@ ("gcmi_requirements" :> <<rec>>)

\* a counter that stays where it is
Incremented_stuck(count) == count

\* call_count += 1
Incremented(count) == count + 1

NoArgs == [state |-> NoneV, forcing |-> NoneV, params |-> NoneV, dt |-> 0]

\* One invocation of the wrapper with (state, forcing, params, dt).  The
\* wrapped step is a caller-supplied callable: ret says whether it raises,
\* returns a new empty dict, or returns the dict object it keeps; st2 is the
\* state it returns.
wrapped(state, forcing, params, dt, ret, st2) ==
  LET checking == should_check(call_count, max_checks)
      reqs == IF checking THEN get_requirements(StepFn) \o extra ELSE <<>>
      res == IF checking /\ reqs # <<>>
               THEN validate_requirements(state, params, forcing, reqs)
               ELSE [errors |-> <<>>, warns |-> <<>>]
      args == [state |-> state, forcing |-> forcing, params |-> params, dt |-> dt]
      all == get_requirements(StepFn) \o extra
      obs == [count0 |-> call_count, args |-> args, checked |-> Len(reqs),
              errors |-> res.errors, warns |-> res.warns,
              \* history: every invocation so far was made with arguments
              \* that violate a requirement at error severity, and the
              \* number of invocations that called validate_requirements
              violated |-> last.violated /\ all # <<>>
                             /\ validate_requirements(state, params, forcing, all).errors # <<>>,
              validations |-> last.validations + (IF checking /\ reqs # <<>> THEN 1 ELSE 0)]
  IN
  /\ invocations' = invocations + 1
  /\ UNCHANGED <<fnRequires, fnWrapped, extra, max_checks, raise_on_error, record_warnings>>
  /\ UNCHANGED <<runVars, cflVars, stkVars, regVars, valVars, auxVars>>
  /\ IF checking /\ reqs # <<>> /\ RaisesOnError(res.errors, raise_on_error)
       THEN /\ call_count' = Incremented(call_count)
            /\ stepDiag' = stepDiag
            /\ last' = obs @@ [outcome |-> "raised", exc |-> RequirementError(res.errors),
                               st |-> NoneV, diag |-> <<>>,
                               stepCalls |-> 0, stepArgs |-> NoArgs,
                               stepSt |-> NoneV, stepDiag |-> <<>>]
     ELSE IF ret = "raise"
       THEN /\ UNCHANGED <<call_count, stepDiag>>
            /\ last' = obs @@ [outcome |-> "raised", exc |-> StepError,
                               st |-> NoneV, diag |-> <<>>,
                               stepCalls |-> 1, stepArgs |-> args,
                               stepSt |-> NoneV, stepDiag |-> <<>>]
     ELSE LET diag0 == IF ret = "reuse" THEN stepDiag ELSE <<>>
              diag1 == IF ShouldRecord(checking, reqs, record_warnings, res.errors, res.warns)
                         THEN AppendRequirements(diag0,
                                RequirementsRecord(call_count, max_checks, reqs,
                                                   res.errors, res.warns))
                         ELSE diag0
          IN /\ call_count' = Incremented(call_count)
             /\ stepDiag' = IF ret = "reuse" THEN diag1 ELSE stepDiag
             /\ last' = obs @@ [outcome |-> "returned", exc |-> NoError,
                                st |-> st2, diag |-> diag1,
                                stepCalls |-> 1, stepArgs |-> args,
                                stepSt |-> st2, stepDiag |-> diag0]

----------------------------------------------------------------------------
\* The inputs the wrapper is exercised with.

\* @requires(Requirement("params", "spectral.radius", type=(int, float),
\*                       predicate=lambda r: r > 0))
RErr == Requirement("params", <<"spectral", "radius">>, TRUE, "number", "positive", "", "error")
RWarn == Requirement("forcing", <<"heat">>, TRUE, "none", "none", "", "warn")
ROpt == Requirement("params", <<"grid", "dx_min">>, FALSE, "number", "none", "dx_min must be a number", "error")

ParamsVals ==
  { EmptyMap,
    MapV("spectral" :> MapV("radius" :> IntV(5))),
    MapV("spectral" :> MapV("radius" :> IntV(-1))) }
ForcingVals == { EmptyMap, MapV("heat" :> IntV(1)) }
StateVals == { EmptyMap, MapV("T" :> IntV(1)) }
StepReturns == {"raise", "fresh", "reuse"}

\* What is attached to the step, to the function it wraps (if any), and
\* what is passed as extra=: <<on step, on inner, step wraps inner, extra>>.
ReqConfigs ==
  { <<<<>>, <<>>, FALSE, <<>>>>,
    <<<<RErr>>, <<>>, FALSE, <<>>>>,
    <<<<>>, <<>>, FALSE, <<RWarn>>>>,
    <<<<RWarn>>, <<RErr>>, TRUE, <<>>>>,
    <<<<RErr>>, <<ROpt>>, TRUE, <<RWarn>>>> }

NoLast ==
  [count0 |-> 0, args |-> NoArgs, checked |-> 0, errors |-> <<>>, warns |-> <<>>,
   violated |-> TRUE, validations |-> 0,
   outcome |-> "none", exc |-> NoError, st |-> NoneV, diag |-> <<>>,
   stepCalls |-> 0, stepArgs |-> NoArgs, stepSt |-> NoneV, stepDiag |-> <<>>]

----------------------------------------------------------------------------
\* gcmi/core/api.py: run_fn (the loop of gcmi/drivers/minimal.py make_runner.run
\* is the same text)

\* report["last_diag"]: None, or a diag.
NoDiag == [none |-> TRUE, val |-> <<>>]
SomeDiag(d) == [none |-> FALSE, val |-> d]

\* dt = params.get("time", {}).get("dt", 1.0)
ResolveDt(params) ==
  IF "time" \in DOMAIN params.m /\ "dt" \in DOMAIN params.m["time"].m
    THEN params.m["time"].m["dt"].v
    ELSE 1

\* _as_iter: a callable becomes a generator over k = 0, 1, ...; an iterable
\* becomes its iterator.
_as_iter(forcing_stream) ==
  IF forcing_stream.callable
    THEN [callable |-> TRUE, k |-> 0, items |-> <<>>]
    ELSE [callable |-> FALSE, k |-> 0, items |-> forcing_stream.items]

\* What forcing_stream(i) returns: a forcing that tells its index.
ForcingAt(i) == MapV("index" :> IntV(i))

\* a producer that hands out its first forcing again and again
NextForcing_repeating(it) ==
  IF it.callable THEN [value |-> ForcingAt(it.k), iter |-> it]
  ELSE IF it.items # <<>> THEN [value |-> Head(it.items), iter |-> it]
  ELSE [value |-> EmptyMap, iter |-> it]

\* forcing = next(fiter, {}): the value, and the iterator afterwards.
NextForcing(it) ==
  IF it.callable THEN [value |-> ForcingAt(it.k), iter |-> [it EXCEPT !.k = @ + 1]]
  ELSE IF it.items # <<>> THEN [value |-> Head(it.items), iter |-> [it EXCEPT !.items = Tail(@)]]
  ELSE [value |-> EmptyMap, iter |-> it]

\* dur computed the wrong way round
Duration_reversed(t0, t1) == t0 - t1

\* dur = t1 - t0
Duration(t0, t1) == t1 - t0

SetKey(d, key, value) ==
  IF key \in DOMAIN d THEN [d EXCEPT ![key] = value] ELSE d @@ (key :> value)

\* diag["timings"] = {"step_sec": dur}
SetStepSec_clobber(d, dur) ==
  [x \in DOMAIN d \cup {"timings"} |-> IF x = "timings" THEN ("step_sec" :> dur) ELSE d[x]]

\* (diag.setdefault("timings", {}))["step_sec"] = dur
SetStepSec(d, dur) ==
  IF "timings" \in DOMAIN d
    THEN [d EXCEPT !["timings"] = SetKey(@, "step_sec", dur)]
    ELSE d @@ ("timings" :> ("step_sec" :> dur))

\* The observers of the model, by what a call of them does.  entered: the
\* call got past argument binding into the observer's body.
\*   plain            def hook(k, state, diag, *_, **kwargs): returns
\*   rich             def hook(k, state, diag, *, params, xp): the minimal
\*                    call fails in argument binding with a TypeError
\*   body_type_error  accepts both calls; its body raises a TypeError when
\*                    params is not passed (it subscripts kwargs.get("params"))
\*   raises           its body raises a ValueError
HookKinds == {"plain", "rich", "body_type_error", "raises"}
HookCall(kind, rich) ==
  CASE kind = "plain" -> [entered |-> TRUE, result |-> "ok"]
    [] kind = "rich" -> IF rich THEN [entered |-> TRUE, result |-> "ok"]
                                ELSE [entered |-> FALSE, result |-> "TypeError"]
    [] kind = "body_type_error" -> IF rich THEN [entered |-> TRUE, result |-> "ok"]
                                           ELSE [entered |-> TRUE, result |-> "TypeError"]
    [] OTHER -> [entered |-> TRUE, result |-> "ValueError"]

\* except TypeError:
CaughtForRetry(result) == result = "TypeError"

\* The step functions step_fn may be bound to: the identity of api.py,
\* which returns its state and {"gcmi_mw": []}, and steps that advance the
\* state or return a diag that already has a timings entry.
AdvanceState(s) == IF s = EmptyMap THEN MapV("T" :> IntV(1)) ELSE EmptyMap
StepFns ==
  [advance : BOOLEAN, diag : { ("gcmi_mw" :> <<>>), ("timings" :> ("inner_sec" :> 1)) }]
StepState(fn, s) == IF fn.advance THEN AdvanceState(s) ELSE s

\* a loop that reads the timestep from params again for every call
StepDt_reread(resolved, params) == ResolveDt(params)

\* line 243: step(st, forcing, params, dt, xp=xp) passes the local dt of
\* line 236.
StepDt(resolved, params) == resolved

\* params is the caller's mapping and the step is the caller's code: the
\* steps of the model store another time.dt in params when the forcing
\* they are given carries heat, and leave params alone otherwise.
RetimedParams == MapV("time" :> MapV("dt" :> IntV(3)))
StepEffectOnParams(params, forcing) ==
  IF "heat" \in DOMAIN forcing.m THEN RetimedParams ELSE params

\* lines 241-250: pull the forcing, time the step, set diag.timings.step_sec
\* and append the duration.  The step returns or raises; the clock advances
\* by some elapsed time between the two readings.
RunStep ==
  /\ pc = "loop" /\ k < n_steps
  /\ LET f == NextForcing(fiter) IN
     /\ fiter' = f.iter
     /\ pulls' = pulls + 1
     /\ stepCalls' = stepCalls + 1
     /\ stepLog' = Append(stepLog, [k |-> k, pulled |-> pulls + 1, forcing |-> f.value,
                                    params |-> run_params,
                                    dt |-> StepDt(run_dt, run_params)])
     /\ \/ /\ pc' = "failed" /\ runExc' = "StepError"
           /\ UNCHANGED <<st, run_diag, report, clock, stepResults, hookIdx, run_params>>
        \/ \E elapsed \in 0..MaxTick :
             LET t0 == clock
                 t1 == clock + elapsed
                 dur == Duration(t0, t1)
                 st2 == StepState(step_fn, st)
                 d2 == SetStepSec(step_fn.diag, dur)
             IN /\ clock' = t1
                /\ run_params' = StepEffectOnParams(run_params, f.value)
                /\ st' = st2
                /\ run_diag' = d2
                /\ report' = [report EXCEPT !.per_step_sec = Append(@, dur)]
                /\ stepResults' = Append(stepResults, [st |-> st2, diag |-> d2])
                /\ hookIdx' = 1
                /\ pc' = "hooks"
                /\ runExc' = runExc
  /\ UNCHANGED <<n_steps, hooks, init, run_dt, k, hookLog, step_fn, run_stream>>
  /\ UNCHANGED <<reqVars, cflVars, stkVars, regVars, valVars, auxVars>>

HookEntry(rich, res) ==
  [hook |-> hookIdx, k |-> k, st |-> st, diag |-> run_diag, rich |-> rich,
   entered |-> res.entered, result |-> res.result]

\* lines 253-259: one pass of  for hook in hooks.
NotifyHook ==
  /\ pc = "hooks" /\ hookIdx <= Len(hooks)
  /\ LET first == HookCall(hooks[hookIdx], FALSE)
         second == HookCall(hooks[hookIdx], TRUE)
     IN IF first.result = "ok"
          THEN /\ hookLog' = Append(hookLog, HookEntry(FALSE, first))
               /\ hookIdx' = hookIdx + 1
               /\ UNCHANGED <<pc, runExc>>
        ELSE IF CaughtForRetry(first.result)
          THEN /\ hookLog' = hookLog \o <<HookEntry(FALSE, first), HookEntry(TRUE, second)>>
               /\ IF second.result = "ok"
                    THEN hookIdx' = hookIdx + 1 /\ UNCHANGED <<pc, runExc>>
                    ELSE pc' = "failed" /\ runExc' = second.result /\ hookIdx' = hookIdx
        ELSE /\ hookLog' = Append(hookLog, HookEntry(FALSE, first))
             /\ pc' = "failed" /\ runExc' = first.result /\ hookIdx' = hookIdx
  /\ UNCHANGED <<n_steps, hooks, init, run_params, fiter, run_dt, k, st, run_diag, report,
                 step_fn, clock, pulls, stepCalls, stepResults, run_stream, stepLog>>
  /\ UNCHANGED <<reqVars, cflVars, stkVars, regVars, valVars, auxVars>>

\* line 261, and the loop's next k
EndIteration ==
  /\ pc = "hooks" /\ hookIdx > Len(hooks)
  /\ report' = [report EXCEPT !.last_diag = SomeDiag(run_diag)]
  /\ k' = k + 1
  /\ pc' = "loop"
  /\ UNCHANGED <<n_steps, hooks, init, run_params, fiter, run_dt, st, run_diag, hookIdx,
                 step_fn, clock, pulls, stepCalls, stepResults, hookLog, runExc,
                 run_stream, stepLog>>
  /\ UNCHANGED <<reqVars, cflVars, stkVars, regVars, valVars, auxVars>>

\* line 263: return st, report
Return ==
  /\ pc = "loop" /\ k >= n_steps
  /\ pc' = "done"
  /\ UNCHANGED <<n_steps, hooks, init, run_params, fiter, run_dt, k, st, run_diag, report,
                 hookIdx, step_fn, clock, pulls, stepCalls, stepResults, hookLog, runExc,
                 run_stream, stepLog>>
  /\ UNCHANGED <<reqVars, cflVars, stkVars, regVars, valVars, auxVars>>

RunParamsVals == { EmptyMap, MapV("time" :> MapV("dt" :> IntV(2))) }
ForcingStreams ==
  { [callable |-> TRUE, items |-> <<>>],
    [callable |-> FALSE, items |-> <<>>],
    [callable |-> FALSE, items |-> <<MapV("heat" :> IntV(1))>>],
    [callable |-> FALSE, items |-> <<MapV("heat" :> IntV(1)), MapV("heat" :> IntV(2))>>] }
HookTuples == UNION { [1..n -> HookKinds] : n \in 0..MaxHooks }

----------------------------------------------------------------------------
\* gcmi/middleware/core.py: with_cfl_guard

\* Floats are exact rationals [n, d] with d > 0 in lowest terms; the inputs
\* of the model are integers and halves, on which float arithmetic is exact.
\* DivByZero stands for the ZeroDivisionError a float division raises.
Abs(i) == IF i < 0 THEN -i ELSE i
RECURSIVE Gcd(_, _)
Gcd(a, b) == IF b = 0 THEN a ELSE Gcd(b, a % b)
Rat(a, b) ==
  LET s == IF b < 0 THEN -1 ELSE 1
      g == Gcd(Abs(a), Abs(b))
  IN [n |-> (s * a) \div g, d |-> (s * b) \div g]
DivByZero == [n |-> 1, d |-> 0]
RMul(a, b) == Rat(a.n * b.n, a.d * b.d)
RDiv(a, b) == IF b.n = 0 THEN DivByZero ELSE Rat(a.n * b.d, a.d * b.n)
RLe(a, b) == a.n * b.d <= b.n * a.d
RLt(a, b) == a.n * b.d < b.n * a.d
\* int(math.ceil(q)) and int(math.floor(q))
RFloor(q) == q.n \div q.d
RCeil(q) == -((-q.n) \div q.d)

\* lines 47-53: dx = 1.0 unless params["grid"]["dx_min"] is there and
\* float() takes it; any exception on the way leaves dx = 1.0.
ResolveDx(params) ==
  IF "grid" \notin DOMAIN params.m THEN Rat(1, 1)
  ELSE LET grid == params.m["grid"]
       IN IF grid.kind # "map" THEN Rat(1, 1)
          ELSE IF "dx_min" \notin DOMAIN grid.m THEN Rat(1, 1)
          ELSE IF grid.m["dx_min"].kind # "int" THEN Rat(1, 1)
          ELSE Rat(grid.m["dx_min"].v, 1)

\* line 55: cfl = 0.0 if dx == 0 else vmax * dt / dx
Cfl_unguarded(v, dt, x) == RDiv(RMul(v, dt), x)
Cfl(v, dt, x) == IF x.n = 0 THEN Rat(0, 1) ELSE RDiv(RMul(v, dt), x)

\* line 56: if cfl <= cfl_max or dx == 0.0 or vmax == 0.0 or dt == 0.0
SingleStep(c, cm, x, v, dt) == RLe(c, cm) \/ x.n = 0 \/ v.n = 0 \/ dt.n = 0

\* line 63: n_sub = max(1, int(math.ceil(cfl / cfl_max)))
NSub_floor(c, cm) == LET q == RFloor(RDiv(c, cm)) IN IF q > 1 THEN q ELSE 1
NSub(c, cm) == LET q == RCeil(RDiv(c, cm)) IN IF q > 1 THEN q ELSE 1

\* line 68: the state handed to a substep is st, the previous substep's
\* output (the caller's state before the first substep).
SubstepInput_restart(original, previous) == original
SubstepInput(original, previous) == previous

\* (diag.setdefault("gcmi_mw", [])).append({"name": name, **meta})
_append_mw_meta(diag, entry) ==
  IF "gcmi_mw" \in DOMAIN diag
    THEN [diag EXCEPT !["gcmi_mw"] = Append(@, entry)]
    ELSE diag @@ ("gcmi_mw" :> <<entry>>)

\* The steps the guard may wrap: they return the state as it is or
\* advanced, with a diag that has a gcmi_mw list (empty or not) or none, and
\* raise on their failAt-th call (0: never).
InnerSteps ==
  [advance : BOOLEAN,
   diag : { ("gcmi_mw" :> <<>>), <<>>, ("gcmi_mw" :> <<[name |-> "other"]>>) },
   failAt : 0..MaxFailAt]
InnerState(fn, s) ==
  IF fn.advance THEN MapV("T" :> IntV(s.m["T"].v + 1)) ELSE s
InnerRaises(fn, nth) == fn.failAt = nth

\* One call of the wrapped step as the model records it.
InnerCall(s, forcing, params, dt, raised, out) ==
  [state |-> s, forcing |-> forcing, params |-> params, dt |-> dt,
   raised |-> raised, out |-> out]

\* lines 46-56 and 63-66: compute vmax, dx and cfl, choose the branch, and
\* in the substepping branch n_sub and dt_sub.  A float division by zero
\* raises.
CflEnter ==
  /\ cfl_pc = "called"
  /\ LET v == Rat(wave_speed, 1)
         x == ResolveDx(cfl_params)
         c == Cfl(v, cfl_dt, x)
     IN /\ vmax' = v /\ dx' = x
        /\ IF c = DivByZero
             THEN /\ cfl_pc' = "raised" /\ cflExc' = "ZeroDivisionError"
                  /\ UNCHANGED <<cfl, n_sub, dt_sub, cfl_st, last_diag>>
           ELSE IF SingleStep(c, cfl_max, x, v, cfl_dt)
             THEN /\ cfl_pc' = "single" /\ cfl' = c
                  /\ UNCHANGED <<cflExc, n_sub, dt_sub, cfl_st, last_diag>>
           ELSE IF RDiv(c, cfl_max) = DivByZero
             THEN /\ cfl_pc' = "raised" /\ cflExc' = "ZeroDivisionError" /\ cfl' = c
                  /\ UNCHANGED <<n_sub, dt_sub, cfl_st, last_diag>>
           ELSE /\ cfl_pc' = "substeps" /\ cfl' = c
                /\ n_sub' = NSub(c, cfl_max)
                /\ dt_sub' = RDiv(cfl_dt, Rat(NSub(c, cfl_max), 1))
                /\ cfl_st' = cfl_state
                /\ last_diag' = <<>>
                /\ UNCHANGED cflExc
  /\ UNCHANGED <<cfl_max, wave_speed, inner_step, cfl_state, cfl_forcing,
                 cfl_params, cfl_dt, sub_i, innerCalls, cflRet>>
  /\ UNCHANGED <<reqVars, runVars, stkVars, regVars, valVars, auxVars>>

\* lines 57-61: one call of the step with the original dt; the metadata is
\* appended to the diag it returned.
CflSingle ==
  /\ cfl_pc = "single"
  /\ IF InnerRaises(inner_step, Len(innerCalls) + 1)
       THEN /\ innerCalls' = Append(innerCalls,
                 InnerCall(cfl_state, cfl_forcing, cfl_params, cfl_dt, TRUE, NoneV))
            /\ cfl_pc' = "raised" /\ cflExc' = "StepError"
            /\ UNCHANGED cflRet
       ELSE LET out == InnerState(inner_step, cfl_state)
                meta == [name |-> "cfl_guard", cfl |-> cfl, n_substeps |-> 1,
                         vmax |-> vmax, dx |-> dx, dt |-> cfl_dt]
            IN /\ innerCalls' = Append(innerCalls,
                    InnerCall(cfl_state, cfl_forcing, cfl_params, cfl_dt, FALSE, out))
               /\ cflRet' = [st |-> out, diag |-> _append_mw_meta(inner_step.diag, meta)]
               /\ cfl_pc' = "returned"
               /\ UNCHANGED cflExc
  /\ UNCHANGED <<cfl_max, wave_speed, inner_step, cfl_state, cfl_forcing, cfl_params,
                 cfl_dt, vmax, dx, cfl, n_sub, dt_sub, cfl_st, last_diag, sub_i>>
  /\ UNCHANGED <<reqVars, runVars, stkVars, regVars, valVars, auxVars>>

\* lines 67-68: one pass of  for _ in range(n_sub).
CflSubstep ==
  /\ cfl_pc = "substeps" /\ sub_i < n_sub
  /\ LET s == SubstepInput(cfl_state, cfl_st)
     IN IF InnerRaises(inner_step, Len(innerCalls) + 1)
          THEN /\ innerCalls' = Append(innerCalls,
                    InnerCall(s, cfl_forcing, cfl_params, dt_sub, TRUE, NoneV))
               /\ cfl_pc' = "raised" /\ cflExc' = "StepError"
               /\ UNCHANGED <<cfl_st, last_diag, sub_i>>
          ELSE /\ innerCalls' = Append(innerCalls,
                    InnerCall(s, cfl_forcing, cfl_params, dt_sub, FALSE,
                              InnerState(inner_step, s)))
               /\ cfl_st' = InnerState(inner_step, s)
               /\ last_diag' = inner_step.diag
               /\ sub_i' = sub_i + 1
               /\ UNCHANGED <<cfl_pc, cflExc>>
  /\ UNCHANGED <<cfl_max, wave_speed, inner_step, cfl_state, cfl_forcing, cfl_params,
                 cfl_dt, vmax, dx, cfl, n_sub, dt_sub, cflRet>>
  /\ UNCHANGED <<reqVars, runVars, stkVars, regVars, valVars, auxVars>>

\* lines 69-79: after the loop the metadata is appended to the last
\* substep's diag, and (st, last_diag) is returned.
CflFinish ==
  /\ cfl_pc = "substeps" /\ sub_i = n_sub
  /\ LET meta == [name |-> "cfl_guard", cfl |-> cfl, n_substeps |-> n_sub,
                  vmax |-> vmax, dx |-> dx, dt |-> cfl_dt, dt_sub |-> dt_sub]
     IN cflRet' = [st |-> cfl_st, diag |-> _append_mw_meta(last_diag, meta)]
  /\ cfl_pc' = "returned"
  /\ UNCHANGED <<cfl_max, wave_speed, inner_step, cfl_state, cfl_forcing, cfl_params,
                 cfl_dt, vmax, dx, cfl, n_sub, dt_sub, cfl_st, last_diag, sub_i,
                 innerCalls, cflExc>>
  /\ UNCHANGED <<reqVars, runVars, stkVars, regVars, valVars, auxVars>>

\* Inputs of the guard: cfl_max (0.8 by default in the source; the test uses
\* 0.5), the wave speed, dt and params of the test, and zero, negative and
\* malformed neighbours of them.
CflMaxVals == { Rat(-1, 2), Rat(0, 1), Rat(1, 2), Rat(2, 1) }
WaveSpeeds == { -1, 0, 1, 10 }
CflDts == { Rat(0, 1), Rat(1, 1), Rat(2, 1) }
CflParamsVals ==
  { EmptyMap,
    MapV("grid" :> EmptyMap),
    MapV("grid" :> NoneV),
    MapV("grid" :> MapV("dx_min" :> StrV)),
    MapV("grid" :> MapV("dx_min" :> IntV(0))),
    MapV("grid" :> MapV("dx_min" :> IntV(1))),
    MapV("grid" :> MapV("dx_min" :> IntV(2))) }
CflState0 == MapV("T" :> IntV(0))
NoRet == [st |-> NoneV, diag |-> <<>>]

\* No CFL guard is in use.
CflIdle ==
  /\ cfl_max = Rat(4, 5) /\ wave_speed = 0
  /\ inner_step = [advance |-> FALSE, diag |-> <<>>, failAt |-> 0]
  /\ cfl_state = CflState0 /\ cfl_forcing = EmptyMap /\ cfl_params = EmptyMap
  /\ cfl_dt = Rat(1, 1) /\ vmax = Rat(0, 1) /\ dx = Rat(1, 1) /\ cfl = Rat(0, 1)
  /\ n_sub = 0 /\ dt_sub = Rat(0, 1) /\ cfl_st = NoneV /\ last_diag = <<>>
  /\ sub_i = 0 /\ cfl_pc = "idle" /\ innerCalls = <<>>
  /\ cflRet = NoRet /\ cflExc = "none"

----------------------------------------------------------------------------
\* A run over a stack of middleware: gcmi/middleware/core.py,
\* gcmi/middleware/requirements.py, and the loops of gcmi/core/api.py and
\* gcmi/drivers/minimal.py.
\*
\* The callables of a stack are numbered from the outermost wrapper, 1, to
\* the innermost step, Len(stk_stack) + 1.  A diag is a tagged value here,
\* since a step may return None or something that is not a dict.  Params is
\* one object handed down by reference: the world w of a call carries what
\* the object holds now, the counter of the requirements-check wrapper, the
\* log of the params each callable was handed, and the violations that
\* validate_requirements has returned during the call.

MiddlewareKinds ==
  { "requirements_check", "cfl_guard", "hyperdiff", "flux_limiter",
    "positivity", "energy_fix", "conservation_projection" }

\* a wrapper that forgets the back-reference unless it is the CFL guard
ExposesWrapped_cfl_only(kind) == kind = "cfl_guard"

\* setattr(wrapped, "__wrapped__", step) at the end of every with_* function
ExposesWrapped(kind) == kind \in MiddlewareKinds

\* params.setdefault(key, {}) in place of params.get(key, {})
params_setdefault(params, key) ==
  IF key \in DOMAIN params.m
    THEN [value |-> params.m[key], params |-> params]
    ELSE [value |-> EmptyMap, params |-> MapV(params.m @@ (key :> EmptyMap))]

\* params.get(key, {}): the value read, and the params object afterwards
params_get(params, key) ==
  [value |-> IF key \in DOMAIN params.m THEN params.m[key] ELSE EmptyMap,
   params |-> params]

\* What a call gives its caller: an exception, or a return value that is
\* the tuple (st, diag) unless shape says what else it is.
Res(exc, state, diag, w) ==
  [exc |-> exc, st |-> state, diag |-> diag, w |-> w, shape |-> "tuple"]

\* A return value that is no tuple: a dict of two fields, or None.
MalformedRets == { "two_keys", "nothing" }
Malformed(shape, w) == [Res("none", NoneV, NoneV, w) EXCEPT !.shape = shape]

\* st, dg = step(state, forcing, params, dt, xp=xp): any iterable of two
\* elements is unpacked, a dict into its keys; None is not iterable.
Unpack(r) ==
  IF r.exc # "none" \/ r.shape = "tuple" THEN r
  ELSE IF r.shape = "two_keys" THEN Res("none", StrV, StrV, r.w)
  ELSE Res("TypeError", NoneV, NoneV, r.w)

\* A dict is mutated in place: when the innermost step hands out the dict
\* object it keeps (w.shared), what a layer writes into the diag it got
\* is written into that object.
Written(w, diag) == IF stk_base = "reused" THEN [w EXCEPT !.shared = diag] ELSE w

\* _append_mw_meta(dg, name, ...) on what the wrapped step returned: None
\* and non-dict values have no setdefault.
AppendMeta(r, entry) ==
  IF r.diag.kind # "map"
    THEN Res("AttributeError", NoneV, NoneV, r.w)
    ELSE LET d2 == _append_mw_meta(r.diag.m, entry)
         IN Res("none", r.st, MapV(d2), Written(r.w, d2))

\* The innermost step: it returns its state advanced and a diag that is a
\* new dict, the dict object it keeps, None or not a dict, or it raises, at
\* once or from the second state on.
BaseRets ==
  { "dict", "reused", "none", "other", "raise", "raise_later" } \cup MalformedRets
BaseAdvance(state) == MapV("T" :> IntV(state.m["T"].v + 1))
BaseCall(w, state) ==
  CASE stk_base = "raise" -> Res("StepError", NoneV, NoneV, w)
    [] stk_base = "raise_later" /\ state.m["T"].v >= 1 -> Res("StepError", NoneV, NoneV, w)
    [] stk_base \in MalformedRets -> Malformed(stk_base, w)
    [] stk_base = "none" -> Res("none", BaseAdvance(state), NoneV, w)
    [] stk_base = "other" -> Res("none", BaseAdvance(state), StrV, w)
    [] stk_base = "reused" -> Res("none", BaseAdvance(state), MapV(w.shared), w)
    [] OTHER -> Res("none", BaseAdvance(state), MapV("gcmi_mw" :> <<>>), w)

RECURSIVE CallFn(_, _, _, _, _)
RECURSIVE Substeps(_, _, _, _, _, _, _)

\* for _ in range(n_sub): st, last_diag = step(st, forcing, params, dt_sub)
Substeps(f, w, state, forcing, dt, n, dg) ==
  IF n = 0 THEN Res("none", state, dg, w)
  ELSE LET r == Unpack(CallFn(f, w, state, forcing, dt))
       IN IF r.exc # "none" THEN r
          ELSE Substeps(f, r.w, r.st, forcing, dt, n - 1, r.diag)

\* with_hyperdiff (coeff = 0.0), with_flux_limiter, with_positivity (no
\* variable of vars in the state), with_energy_fix and
\* with_conservation_projection: call the step, append the metadata.
TransformLayer(kind, f, w, state, forcing, dt) ==
  LET r == Unpack(CallFn(f + 1, w, state, forcing, dt))
  IN IF r.exc # "none" THEN r ELSE AppendMeta(r, [name |-> kind])

\* with_cfl_guard.wrapped, lines 45-79
CflLayer(f, w, state, forcing, dt) ==
  LET v == Rat(stk_wave, 1)
      g == params_get(w.params, "grid")
      w2 == [w EXCEPT !.params = g.params]
      x == ResolveDx(w2.params)
      c == Cfl(v, dt, x)
  IN IF c = DivByZero THEN Res("ZeroDivisionError", NoneV, NoneV, w2)
     ELSE IF SingleStep(c, cfl_max, x, v, dt)
       THEN LET r == Unpack(CallFn(f + 1, w2, state, forcing, dt))
            IN IF r.exc # "none" THEN r
               ELSE AppendMeta(r, [name |-> "cfl_guard", n_substeps |-> 1])
     ELSE IF RDiv(c, cfl_max) = DivByZero
       THEN Res("ZeroDivisionError", NoneV, NoneV, w2)
     ELSE LET n == NSub(c, cfl_max)
              r == Substeps(f + 1, w2, state, forcing, RDiv(dt, Rat(n, 1)), n, EmptyMap)
          IN IF r.exc # "none" THEN r
             ELSE AppendMeta(r, [name |-> "cfl_guard", n_substeps |-> n])

\* with_requirements_check.wrapped, lines 65-104
ReqLayer(f, w, state, forcing, dt) ==
  LET checking == should_check(w.count, max_checks)
      reqs == IF checking THEN get_requirements(f + 1) \o extra ELSE <<>>
      res == IF checking /\ reqs # <<>>
               THEN validate_requirements(state, w.params, forcing, reqs)
               ELSE [errors |-> <<>>, warns |-> <<>>]
      wf == [w EXCEPT !.found = @ \o res.errors \o res.warns]
  IN IF checking /\ reqs # <<>> /\ RaisesOnError(res.errors, raise_on_error)
       THEN Res("RequirementError", NoneV, NoneV, [wf EXCEPT !.count = Incremented(@)])
     ELSE LET r == Unpack(CallFn(f + 1, wf, state, forcing, dt))
          IN IF r.exc # "none" THEN r
             ELSE IF ShouldRecord(checking, reqs, record_warnings, res.errors, res.warns)
               THEN IF r.diag.kind # "map"
                      THEN Res("AttributeError", NoneV, NoneV, r.w)
                      ELSE LET d2 == AppendRequirements(r.diag.m,
                                       RequirementsRecord(w.count, max_checks, reqs,
                                                          res.errors, res.warns))
                           IN Res("none", r.st, MapV(d2),
                                  [Written(r.w, d2) EXCEPT !.count = Incremented(@)])
             ELSE Res("none", r.st, r.diag, [r.w EXCEPT !.count = Incremented(@)])

\* One call of the callable f of the stack with (state, forcing, params, dt).
CallFn(f, w, state, forcing, dt) ==
  LET w1 == [w EXCEPT !.seen = Append(@, [fn |-> f, params |-> w.params])]
  IN IF f > Len(stk_stack) THEN BaseCall(w1, state)
     ELSE IF stk_stack[f] = "requirements_check" THEN ReqLayer(f, w1, state, forcing, dt)
     ELSE IF stk_stack[f] = "cfl_guard" THEN CflLayer(f, w1, state, forcing, dt)
     ELSE TransformLayer(stk_stack[f], f, w1, state, forcing, dt)

\* _bind_step.call, lines 117-126 of drivers/minimal.py: None becomes {},
\* any other non-dict diag becomes {"diag": diag}.
NormalizeDiag(diag) ==
  IF diag.kind = "none" THEN EmptyMap
  ELSE IF diag.kind # "map" THEN MapV("diag" :> diag)
  ELSE diag

\* run_fn calls step_fn itself; make_runner.run calls it through _bind_step.
Runners == { "run_fn", "driver" }
DiagOf(runner, diag) == IF runner = "driver" THEN NormalizeDiag(diag) ELSE diag

\* What the loop gets from the step: run_fn unpacks it (line 243 of
\* api.py); _bind_step.call raises a TypeError unless it is a tuple of
\* length 2 (lines 117-119 of minimal.py).
StepOut(runner, r) ==
  IF runner = "run_fn" THEN Unpack(r)
  ELSE IF r.exc = "none" /\ r.shape # "tuple" THEN Res("TypeError", NoneV, NoneV, r.w)
  ELSE r

\* a loop that goes on after the step raised
StepFailed_ignored(r) == FALSE

\* line 243 of api.py (176 of minimal.py) is in no try block: an exception
\* of the step leaves the loop.
StepFailed(r) == r.exc # "none"

\* the innermost step was called in the calls logged in seen
BaseReached(seen) == \E i \in 1..Len(seen) : seen[i].fn = Len(stk_stack) + 1

NoReport == [per_step_sec |-> <<>>, last_diag |-> NoDiag]

\* lines 232-238 of api.py (160-169 of minimal.py): dt is read from params.
StackStart ==
  /\ stk_pc = "start"
  /\ LET t == params_get(stk_params, "time")
     IN /\ stk_params' = t.params
        /\ stk_dt' = Rat(ResolveDt(t.params), 1)
  /\ stk_pc' = "loop"
  /\ UNCHANGED <<stk_runner, stk_stack, stk_base, stk_wave, stk_params0, stk_n, stk_k,
                 stk_st, stk_report, stk_seen, stk_notified, stk_stepExc, stk_exc,
                 stk_badDiag>>
  /\ UNCHANGED <<reqVars, runVars, cflVars, regVars, valVars, auxVars>>

\* lines 240-261 of api.py (171-189 of minimal.py): one iteration with the
\* forcing {}, a clock that does not advance and one observer that returns.
StackIterate ==
  /\ stk_pc = "loop" /\ stk_k < stk_n
  /\ LET w0 == [params |-> stk_params, count |-> call_count, seen |-> <<>>,
                shared |-> stepDiag, found |-> <<>>]
         r == StepOut(stk_runner, CallFn(1, w0, stk_st, EmptyMap, stk_dt))
         dg == DiagOf(stk_runner, r.diag)
     IN /\ stk_params' = r.w.params
        /\ call_count' = r.w.count
        /\ stk_seen' = stk_seen \o r.w.seen
        /\ stk_stepExc' = r.exc
        /\ stk_badDiag' = (stk_badDiag \/ (BaseReached(r.w.seen) /\ stk_base \in {"none", "other"}))
        /\ IF StepFailed(r)
             THEN /\ stk_pc' = "failed" /\ stk_exc' = r.exc
                  /\ stepDiag' = r.w.shared
                  /\ UNCHANGED <<stk_k, stk_st, stk_report, stk_notified>>
           ELSE IF dg.kind # "map"
             THEN /\ stk_pc' = "failed" /\ stk_exc' = "AttributeError"
                  /\ stk_st' = r.st
                  /\ stepDiag' = r.w.shared
                  /\ UNCHANGED <<stk_k, stk_report, stk_notified>>
           ELSE LET d2 == SetStepSec(dg.m, Duration(0, 0))
                IN /\ stk_st' = r.st
                   /\ stepDiag' = Written(r.w, d2).shared
                   /\ stk_report' = [per_step_sec |-> Append(stk_report.per_step_sec, Duration(0, 0)),
                                     last_diag |-> SomeDiag(d2)]
                   /\ stk_notified' = Append(stk_notified, [k |-> stk_k, st |-> r.st, diag |-> d2,
                                                            found |-> r.w.found])
                   /\ stk_k' = stk_k + 1
                   /\ UNCHANGED <<stk_pc, stk_exc>>
  /\ UNCHANGED <<stk_runner, stk_stack, stk_base, stk_wave, stk_params0, stk_n, stk_dt>>
  /\ UNCHANGED <<fnRequires, fnWrapped, extra, max_checks, raise_on_error, record_warnings,
                 invocations, last>>
  /\ UNCHANGED <<runVars, cflVars, regVars, valVars, auxVars>>

\* return st, report
StackReturn ==
  /\ stk_pc = "loop" /\ stk_k >= stk_n
  /\ stk_pc' = "done"
  /\ UNCHANGED <<stk_runner, stk_stack, stk_base, stk_wave, stk_params0, stk_params, stk_n,
                 stk_k, stk_st, stk_dt, stk_report, stk_seen, stk_notified, stk_stepExc,
                 stk_exc, stk_badDiag>>
  /\ UNCHANGED <<reqVars, runVars, cflVars, regVars, valVars, auxVars>>

\* The stacks of the model: up to MaxLayers wrappers, at most one of them a
\* requirements check (the model keeps one counter).
StackFns == 1..(MaxLayers + 1)
Stacks ==
  { s \in UNION { [1..n -> MiddlewareKinds] : n \in 0..MaxLayers } :
      Cardinality({ i \in DOMAIN s : s[i] = "requirements_check" }) <= 1 }
StackParamsVals ==
  { EmptyMap,
    MapV(("spectral" :> MapV("radius" :> IntV(5))) @@ ("time" :> MapV("dt" :> IntV(2)))) }
StackWaves == { 0, 2 }

\* What @requires attached where: nothing; RErr on the innermost step; or
\* RErr on the innermost step and RWarn on every wrapper.
ReqPlacements == { "nowhere", "step", "everywhere" }
PlacedOn(placement, stack, f) ==
  IF f = Len(stack) + 1 /\ placement # "nowhere" THEN <<RErr>>
  ELSE IF f <= Len(stack) /\ placement = "everywhere" THEN <<RWarn>>
  ELSE <<>>

\* No run over a stack is in progress.
StkIdle ==
  /\ stk_runner = "run_fn" /\ stk_stack = <<>> /\ stk_base = "dict" /\ stk_wave = 0
  /\ stk_params0 = EmptyMap /\ stk_params = EmptyMap /\ stk_n = 0 /\ stk_pc = "idle"
  /\ stk_k = 0 /\ stk_st = EmptyMap /\ stk_dt = Rat(1, 1) /\ stk_report = NoReport
  /\ stk_seen = <<>> /\ stk_notified = <<>> /\ stk_stepExc = "none"
  /\ stk_exc = "none" /\ stk_badDiag = FALSE

----------------------------------------------------------------------------
\* gcmi/utils/requirements.py: requires and get_requirements, step by step

\* an attachment that replaces what was attached before
Attached_replacing(existing, reqs) == reqs

\* setattr(fn, "__gcmi_requires__", existing + tuple(reqs))
Attached(existing, reqs) == existing \o reqs

\* reqs.extend(attached) leaving out what reqs already holds
Collected_dedup(reqs, attached) ==
  reqs \o SelectSeq(attached, LAMBDA r : \A i \in 1..Len(reqs) : reqs[i] # r)

\* if attached: reqs.extend(attached)
Collected(reqs, attached) == reqs \o attached

\* a cycle guard that never fires
Visited_never(cur, seen) == FALSE

\* id(cur) in seen
Visited(cur, seen) == cur \in seen

\* requires(*reqs)(f)
Attach(f, reqs) ==
  /\ walk_pc = "idle" /\ Len(attachLog) < MaxAttach
  /\ fnRequires' = [fnRequires EXCEPT ![f] = Attached(@, reqs)]
  /\ attachLog' = Append(attachLog, [fn |-> f, reqs |-> reqs])
  /\ UNCHANGED <<fnWrapped, extra, max_checks, raise_on_error, record_warnings,
                 call_count, stepDiag, invocations, last>>
  /\ UNCHANGED <<walk_fn, walk_cur, walk_seen, walk_reqs, walk_pc, walk_visits>>
  /\ UNCHANGED <<runVars, cflVars, stkVars, valVars, auxVars>>

\* get_requirements(f), lines 118-120: reqs = [], seen = set(), cur = fn
WalkBegin(f) ==
  /\ walk_pc = "idle"
  /\ walk_fn' = f /\ walk_cur' = f /\ walk_seen' = {} /\ walk_reqs' = <<>>
  /\ walk_visits' = <<>> /\ walk_pc' = "walking"
  /\ UNCHANGED <<attachLog, reqVars, runVars, cflVars, stkVars, valVars, auxVars>>

\* lines 121-126: one pass of  while cur is not None and id(cur) not in seen.
\* No chain of the model has more than Cardinality(Fns) + 1 passes to offer.
WalkStep ==
  /\ walk_pc = "walking"
  /\ walk_cur # 0 /\ ~Visited(walk_cur, walk_seen)
  /\ Len(walk_visits) <= Cardinality(Fns)
  /\ walk_seen' = walk_seen \cup {walk_cur}
  /\ walk_reqs' = Collected(walk_reqs, fnRequires[walk_cur])
  /\ walk_cur' = fnWrapped[walk_cur]
  /\ walk_visits' = Append(walk_visits, walk_cur)
  /\ UNCHANGED <<walk_fn, walk_pc, attachLog, reqVars, runVars, cflVars, stkVars, valVars, auxVars>>

\* line 127: the loop condition fails, return tuple(reqs)
WalkEnd ==
  /\ walk_pc = "walking"
  /\ ~(walk_cur # 0 /\ ~Visited(walk_cur, walk_seen))
  /\ walk_pc' = "done"
  /\ UNCHANGED <<walk_fn, walk_cur, walk_seen, walk_reqs, walk_visits, attachLog,
                 reqVars, runVars, cflVars, stkVars, valVars, auxVars>>

\* What is passed to requires, and the ways __wrapped__ may be set on the
\* callables of the model (0: no such attribute), cycles included.
AttachVals == { <<RErr>>, <<RErr, RErr>>, <<RWarn, RErr>> }
WrappedVals == [Fns -> Fns \cup {0}]

\* The registry is not in use.
RegIdle ==
  /\ attachLog = <<>> /\ walk_fn = 0 /\ walk_cur = 0 /\ walk_seen = {}
  /\ walk_reqs = <<>> /\ walk_pc = "idle" /\ walk_visits = <<>>

----------------------------------------------------------------------------
\* gcmi/utils/requirements.py: validate_requirements, pass by pass

\* Whether the pass for r gets to line 197, ok = bool(r.predicate(value)):
\* the container is there, the path resolves, the type check (if any) is
\* passed and a predicate is given.
PredicateCalled(r, state, params, forcing) ==
  LET container == get_container(r.where, state, params, forcing)
  IN /\ container.kind # "none"
     /\ _get_path(container, r.path).ok
     /\ ~(r.type # "none" /\ ~IsInstance(_get_path(container, r.path).val, r.type))
     /\ r.predicate # "none"

\* lines 155-217: one pass of  for r in requirements.
ValidateOne ==
  /\ val_pc = "validating" /\ Len(val_out) < Len(val_reqs)
  /\ LET r == val_reqs[Len(val_out) + 1]
         vs == CheckRequirement(r, val_state, val_params, val_forcing)
         acc == AppendViolation([errors |-> val_errors, warns |-> val_warns], vs)
     IN /\ val_errors' = acc.errors
        /\ val_warns' = acc.warns
        /\ val_out' = Append(val_out,
             [violations |-> vs,
              predicate_called |-> PredicateCalled(r, val_state, val_params, val_forcing)])
  /\ UNCHANGED <<val_state, val_params, val_forcing, val_reqs, val_pc>>
  /\ UNCHANGED <<reqVars, runVars, cflVars, stkVars, regVars, auxVars>>

\* line 219: return errors, warns
ValidateReturn ==
  /\ val_pc = "validating" /\ Len(val_out) = Len(val_reqs)
  /\ val_pc' = "done"
  /\ UNCHANGED <<val_state, val_params, val_forcing, val_reqs, val_errors, val_warns, val_out>>
  /\ UNCHANGED <<reqVars, runVars, cflVars, stkVars, regVars, auxVars>>

\* The requirements validate_requirements is given: on params (the path
\* spectral.radius of the tests) with and without type and predicate, on
\* forcing, and one whose where names no container; each required or not,
\* each at either severity.
ValReqs ==
  { Requirement("params", <<"spectral", "radius">>, req, tp[1], tp[2], "", sev) :
      req \in BOOLEAN, sev \in {"error", "warn"},
      tp \in { <<"none", "none">>, <<"number", "none">>,
               <<"number", "positive">>, <<"none", "positive">> } }
  \cup { Requirement("forcing", <<"heat">>, req, "none", "none", "", sev) :
           req \in BOOLEAN, sev \in {"error", "warn"} }
  \cup { Requirement("diag", <<"heat">>, FALSE, "none", "none", "", "warn") }
ValReqLists == UNION { [1..n -> ValReqs] : n \in 0..MaxReqs }

\* The containers: None, empty, with the value looked for (well-typed and
\* positive, well-typed and negative, ill-typed), and with a non-mapping on
\* the way.
ValParamsVals ==
  { NoneV, EmptyMap,
    MapV("spectral" :> MapV("radius" :> IntV(5))),
    MapV("spectral" :> MapV("radius" :> IntV(-1))),
    MapV("spectral" :> MapV("radius" :> StrV)),
    MapV("spectral" :> IntV(1)) }
ValForcingVals == { NoneV, EmptyMap, MapV("heat" :> IntV(1)) }

\* validate_requirements is not running.
ValIdle ==
  /\ val_state = NoneV /\ val_params = NoneV /\ val_forcing = NoneV
  /\ val_reqs = <<>> /\ val_errors = <<>> /\ val_warns = <<>>
  /\ val_pc = "idle" /\ val_out = <<>>

----------------------------------------------------------------------------
\* gcmi/middleware/core.py: the transform wrappers, and gcmi/ops/grid.py

TransformKinds ==
  { "hyperdiff", "flux_limiter", "positivity", "energy_fix", "conservation_projection" }

\* The backends: one with zeros_like and maximum, one with neither.
Backends == { "full", "bare" }

\* grid_ops.laplacian(field, xp=xp): xp.zeros_like(field), or the field
\* itself when zeros_like raises.  failed: the backend call raised.
laplacian(field, xp) ==
  IF xp = "full" /\ field.kind = "int"
    THEN [failed |-> FALSE, val |-> IntV(0)]
    ELSE [failed |-> TRUE, val |-> field]

\* grid_ops.clamp_min(field, lower, xp=xp): xp.maximum(field, lower), or
\* max(field, lower) when that raises, or the field itself when that
\* raises too (a str against the float lower).
clamp_min(field, lower, xp) ==
  IF field.kind = "int"
    THEN [failed |-> FALSE, val |-> IntV(IF field.v >= lower THEN field.v ELSE lower)]
    ELSE [failed |-> TRUE, val |-> field]

\* The body of the try block for one entry: lines 108-109 of with_hyperdiff
\* (lap_v = laplacian(st[v]); st[v] = st[v] - coeff * lap_v, a TypeError on
\* a str) and line 156 of with_positivity (lower = 0.0).  raised: the
\* except clause was entered and the assignment not made.
Transformed(kind, value, coeff, xp) ==
  IF kind = "hyperdiff"
    THEN LET lap == laplacian(value, xp) IN
         IF value.kind = "int"
           THEN [failed |-> lap.failed, raised |-> FALSE,
                 val |-> IntV(value.v - coeff * lap.val.v)]
           ELSE [failed |-> TRUE, raised |-> TRUE, val |-> value]
    ELSE LET c == clamp_min(value, 0, xp) IN
         [failed |-> c.failed, raised |-> FALSE, val |-> c.val]

\* The names the wrapper loops over: vars for with_positivity and for
\* with_hyperdiff with coeff != 0.0, none for the others.
LoopVars(kind, coeff, names) ==
  IF kind = "positivity" \/ (kind = "hyperdiff" /\ coeff # 0) THEN names ELSE <<>>

\* The record handed to _append_mw_meta: the name and the keyword
\* arguments that tell the configuration.
MetaRecord(kind, coeff, names) ==
  CASE kind = "hyperdiff" -> [name |-> kind, coeff |-> coeff, order |-> 4, vars |-> names]
    [] kind = "flux_limiter" -> [name |-> kind, scheme |-> "mc", vars |-> names]
    [] kind = "positivity" -> [name |-> kind, vars |-> names, lower |-> 0, conserve |-> "None"]
    [] kind = "energy_fix" -> [name |-> kind, budget |-> <<"dry_static", "latent", "kinetic">>]
    [] OTHER -> [name |-> kind, conserve |-> <<"total_mass", "moist_energy">>]

NoTfRet == [st |-> NoneV, diag |-> NoneV]

\* st, dg = step(state, forcing, params, dt, xp=xp)
TransformCall ==
  /\ tf_pc = "call"
  /\ tf_calls' = Append(tf_calls, tf_args)
  /\ IF tf_inner.raises
       THEN /\ tf_pc' = "raised" /\ tf_exc' = "StepError"
            /\ UNCHANGED <<tf_st, tf_dg>>
       ELSE /\ tf_st' = tf_inner.st /\ tf_dg' = tf_inner.diag
            /\ tf_pc' = "loop"
            /\ UNCHANGED tf_exc
  /\ UNCHANGED <<tf_kind, tf_coeff, tf_vars, tf_inner, tf_args, tf_i, tf_applied, tf_ret>>
  /\ UNCHANGED <<reqVars, runVars, cflVars, stkVars, regVars, valVars, pathVars, idVars>>

\* one pass of  for v in vars: if v in st: try: ... except Exception: pass
TransformApply ==
  /\ tf_pc = "loop" /\ tf_i <= Len(LoopVars(tf_kind, tf_coeff, tf_vars))
  /\ LET v == tf_vars[tf_i] IN
     IF v \in DOMAIN tf_st.m
       THEN LET t == Transformed(tf_kind, tf_st.m[v], tf_coeff, tf_args.xp) IN
            /\ tf_st' = IF t.raised THEN tf_st ELSE MapV([tf_st.m EXCEPT ![v] = t.val])
            /\ tf_applied' = Append(tf_applied, [var |-> v, failed |-> t.failed])
       ELSE UNCHANGED <<tf_st, tf_applied>>
  /\ tf_i' = tf_i + 1
  /\ UNCHANGED <<tf_kind, tf_coeff, tf_vars, tf_inner, tf_args, tf_dg, tf_pc, tf_calls,
                 tf_ret, tf_exc>>
  /\ UNCHANGED <<reqVars, runVars, cflVars, stkVars, regVars, valVars, pathVars, idVars>>

\* _append_mw_meta(dg, name, ...); return st, dg
TransformFinish ==
  /\ tf_pc = "loop" /\ tf_i > Len(LoopVars(tf_kind, tf_coeff, tf_vars))
  /\ IF tf_dg.kind # "map"
       THEN /\ tf_pc' = "raised" /\ tf_exc' = "AttributeError"
            /\ UNCHANGED <<tf_dg, tf_ret>>
       ELSE LET dg2 == MapV(_append_mw_meta(tf_dg.m, MetaRecord(tf_kind, tf_coeff, tf_vars)))
            IN /\ tf_dg' = dg2
               /\ tf_ret' = [st |-> tf_st, diag |-> dg2]
               /\ tf_pc' = "returned"
               /\ UNCHANGED tf_exc
  /\ UNCHANGED <<tf_kind, tf_coeff, tf_vars, tf_inner, tf_args, tf_st, tf_i, tf_calls,
                 tf_applied>>
  /\ UNCHANGED <<reqVars, runVars, cflVars, stkVars, regVars, valVars, pathVars, idVars>>

\* The wrappers: every kind; coeff = 0.0 (the default) or 1 for
\* with_hyperdiff; vars naming one or two entries.
TfClosures ==
  { <<kind, coeff, names>> \in TransformKinds \X {0, 1} \X { <<"q">>, <<"q", "T">> } :
      coeff = 1 => kind = "hyperdiff" }

\* What the wrapped step returns: a state with q and T negative, positive,
\* a str or absent, and a diag that is {}, has a gcmi_mw list with an
\* entry, is None or is a str; or the step raises.
TfEntryVals == { IntV(-2), IntV(3), StrV }
TfStates ==
  { MapV(f) : f \in UNION { [names -> TfEntryVals] : names \in SUBSET {"q", "T"} } }
TfDiags ==
  { EmptyMap, MapV("gcmi_mw" :> <<[name |-> "inner"]>>), NoneV, StrV }
TfInners ==
  { [raises |-> FALSE, st |-> s, diag |-> d] : s \in TfStates, d \in TfDiags }
    \cup { [raises |-> TRUE, st |-> NoneV, diag |-> NoneV] }

TfArgs(xp) ==
  [state |-> MapV("q" :> IntV(1)), forcing |-> EmptyMap, params |-> EmptyMap,
   dt |-> 1, xp |-> xp]

\* No transform wrapper is in use.
TfIdle ==
  /\ tf_kind = "flux_limiter" /\ tf_coeff = 0 /\ tf_vars = <<>>
  /\ tf_inner = [raises |-> TRUE, st |-> NoneV, diag |-> NoneV]
  /\ tf_args = TfArgs("full") /\ tf_st = NoneV /\ tf_dg = NoneV /\ tf_i = 1
  /\ tf_pc = "idle" /\ tf_calls = <<>> /\ tf_applied = <<>>
  /\ tf_ret = NoTfRet /\ tf_exc = "none"

----------------------------------------------------------------------------
\* gcmi/utils/struct.py and gcmi/utils/requirements.py: dotted paths

\* a resolution that reports every failure as a KeyError
struct_get_path_keyerror(cur, path) ==
  [ok |-> FALSE, val |-> NoneV, exc |-> "KeyError", err |-> "not found while resolving"]

\* _get_path of utils/struct.py: cur = cur[seg] for every segment; the
\* KeyError of a mapping without the key and the TypeError of subscripting
\* an int, a str or None with a str are each re-raised with its own message.
RECURSIVE struct_get_path(_, _)
struct_get_path(cur, path) ==
  IF path = <<>> THEN [ok |-> TRUE, val |-> cur, exc |-> "none", err |-> ""]
  ELSE IF cur.kind # "map"
    THEN [ok |-> FALSE, val |-> NoneV, exc |-> "TypeError",
          err |-> "Encountered non-mapping object"]
  ELSE IF Head(path) \notin DOMAIN cur.m
    THEN [ok |-> FALSE, val |-> NoneV, exc |-> "KeyError",
          err |-> "not found while resolving"]
  ELSE struct_get_path(cur.m[Head(path)], Tail(path))

\* take_nested(d, p): the 1-tuple of _get_path(d, p), or what it raised.
take_nested(d, path) == struct_get_path(d, path)

\* What a caller of _get_path of utils/requirements.py gets: the value, or
\* a KeyError (both raise statements raise KeyError) with its message.
RaisedByGetPath(res) ==
  [ok |-> res.ok, val |-> res.val,
   exc |-> IF res.ok THEN "none" ELSE "KeyError", err |-> res.err]

NoResolution == [ok |-> FALSE, val |-> NoneV, exc |-> "pending", err |-> ""]

\* value = _get_path(container, r.path)
ResolveForRequirement ==
  /\ path_req = NoResolution
  /\ path_req' = RaisedByGetPath(_get_path(path_d, path_p))
  /\ UNCHANGED <<path_d, path_p, path_struct>>
  /\ UNCHANGED <<reqVars, runVars, cflVars, stkVars, regVars, valVars, tfVars, idVars>>

\* (value,) = take_nested(d, path)
ResolveForTakeNested ==
  /\ path_struct = NoResolution
  /\ path_struct' = take_nested(path_d, path_p)
  /\ UNCHANGED <<path_d, path_p, path_req>>
  /\ UNCHANGED <<reqVars, runVars, cflVars, stkVars, regVars, valVars, tfVars, idVars>>

\* The paths: one to MaxPathLen segments, as path.split(".") gives them.
Segments == { "grid", "dx_min", "dy_min", "value" }
PathVals == UNION { [1..n -> Segments] : n \in 1..MaxPathLen }

\* The mappings: empty, the params of the tests, one level deeper, and
\* with an int, a str or None where a mapping is expected.
PathMappings ==
  { EmptyMap,
    MapV("grid" :> MapV("dx_min" :> IntV(1000))),
    MapV("grid" :> MapV("dx_min" :> MapV("value" :> IntV(1)))),
    MapV("grid" :> IntV(5)),
    MapV("grid" :> MapV("dx_min" :> StrV)),
    MapV("grid" :> NoneV) }

\* No path is being resolved.
PathIdle ==
  /\ path_d = EmptyMap /\ path_p = <<>>
  /\ path_req = NoResolution /\ path_struct = NoResolution

----------------------------------------------------------------------------
\* gcmi/core/api.py: run_fn with the identity step_fn, and the observers of
\* gcmi/hooks/budgets.py

\* a step that adds what the forcing carries to T
step_fn_forced(state, forcing, params, dt) ==
  [st |-> MapV(SetKey(state.m, "T",
                      IntV((IF "T" \in DOMAIN state.m /\ state.m["T"].kind = "int"
                              THEN state.m["T"].v ELSE 0) + Cardinality(DOMAIN forcing.m)))),
   diag |-> ("gcmi_mw" :> <<>>)]

\* step_fn of api.py, lines 90-125: the identity.  It returns the state it
\* was given and a new diag {"gcmi_mw": []}.
step_fn_identity(state, forcing, params, dt) ==
  [st |-> state, diag |-> ("gcmi_mw" :> <<>>)]

\* grid_ops.total(field, xp=None), as the observers call it when they are
\* notified with (k, st, diag) alone: xp.sum raises, float(field) gives the
\* number, and what float() does not take counts as 0.0.
total(field) == IF field.kind = "int" THEN field.v ELSE 0

\* The total over the entries of names that the state has.
RECURSIVE TotalOver(_, _)
TotalOver(state, names) ==
  IF names = <<>> THEN 0
  ELSE (IF Head(names) \in DOMAIN state.m THEN total(state.m[Head(names)]) ELSE 0)
         + TotalOver(state, Tail(names))

\* What one observer computes from the state: energy_budget_hook with its
\* default terms and term_vars, water_budget_hook with var = "q".
BudgetKinds == { "energy", "water" }
BudgetOf(kind, state) ==
  IF kind = "energy"
    THEN [dry_static |-> TotalOver(state, <<"T">>), latent |-> TotalOver(state, <<"q">>),
          kinetic |-> TotalOver(state, <<"u", "v">>)]
    ELSE [q |-> TotalOver(state, <<"q">>)]

\* an observer that pops from the state what it has summed
BudgetHook_consuming(kind, i, state, diag) ==
  [st |-> MapV([x \in DOMAIN state.m \ {"q"} |-> state.m[x]]), diag |-> diag]

\* hook(k, state, diag) of budgets.py, lines 57-72 and 104-114 (sink is
\* None): diag.setdefault("budgets", {}).setdefault(kind, {})[k] = totals;
\* the state is read only.
BudgetHook(kind, i, state, diag) ==
  LET b == IF "budgets" \in DOMAIN diag THEN diag["budgets"] ELSE <<>>
      e == IF kind \in DOMAIN b THEN b[kind] ELSE <<>>
  IN [st |-> state,
      diag |-> SetKey(diag, "budgets", SetKey(b, kind, SetKey(e, i, BudgetOf(kind, state))))]

\* lines 232-238 of a call of run_fn; the next run begins when the one
\* before has returned.
IdStart ==
  /\ id_pc = "returned" /\ id_run < MaxRuns
  /\ id_run' = id_run + 1
  /\ id_st' = id_init
  /\ id_dt' = ResolveDt(id_params)
  /\ id_fiter' = _as_iter(id_stream)
  /\ id_k' = 0 /\ id_diag' = <<>> /\ id_report' = NoReport /\ id_hi' = 1
  /\ id_pc' = "loop"
  /\ UNCHANGED <<id_init, id_params, id_n, id_stream, id_hooks, id_held, id_seen, id_final>>
  /\ UNCHANGED <<reqVars, runVars, cflVars, stkVars, regVars, valVars, pathVars, tfVars>>

\* lines 241-250: pull the forcing, call the step, time it.  An iterator
\* given as the forcing source is the object the loop pulls from.
IdStep ==
  /\ id_pc = "loop" /\ id_k < id_n
  /\ LET f == NextForcing(id_fiter)
         r == step_fn_identity(id_st, f.value, id_params, id_dt)
     IN /\ id_fiter' = f.iter
        /\ id_stream' = IF id_stream.oneshot THEN [id_stream EXCEPT !.items = f.iter.items]
                                            ELSE id_stream
        /\ id_st' = r.st
        /\ id_diag' = SetStepSec(r.diag, Duration(0, 0))
        /\ id_report' = [id_report EXCEPT !.per_step_sec = Append(@, Duration(0, 0))]
  /\ id_hi' = 1
  /\ id_pc' = "hooks"
  /\ UNCHANGED <<id_init, id_params, id_n, id_hooks, id_run, id_dt, id_k, id_held, id_seen,
                 id_final>>
  /\ UNCHANGED <<reqVars, runVars, cflVars, stkVars, regVars, valVars, pathVars, tfVars>>

\* lines 253-259: one pass of  for hook in hooks; the observer is handed
\* the dicts st and diag themselves.
IdNotify ==
  /\ id_pc = "hooks" /\ id_hi <= Len(id_hooks)
  /\ LET h == BudgetHook(id_hooks[id_hi], id_k, id_st, id_diag)
     IN /\ id_st' = h.st
        /\ id_diag' = h.diag
        /\ id_seen' = Append(id_seen, [run |-> id_run, k |-> id_k, st |-> id_st])
  /\ id_hi' = id_hi + 1
  /\ UNCHANGED <<id_init, id_params, id_n, id_stream, id_hooks, id_run, id_dt, id_fiter,
                 id_k, id_report, id_pc, id_held, id_final>>
  /\ UNCHANGED <<reqVars, runVars, cflVars, stkVars, regVars, valVars, pathVars, tfVars>>

\* line 261, and the loop's next k
IdEndIteration ==
  /\ id_pc = "hooks" /\ id_hi > Len(id_hooks)
  /\ id_report' = [id_report EXCEPT !.last_diag = SomeDiag(id_diag)]
  /\ id_held' = Append(id_held, [run |-> id_run, k |-> id_k, st |-> id_st])
  /\ id_k' = id_k + 1
  /\ id_pc' = "loop"
  /\ UNCHANGED <<id_init, id_params, id_n, id_stream, id_hooks, id_run, id_st, id_dt,
                 id_fiter, id_diag, id_hi, id_seen, id_final>>
  /\ UNCHANGED <<reqVars, runVars, cflVars, stkVars, regVars, valVars, pathVars, tfVars>>

\* line 263: return st, report
IdReturn ==
  /\ id_pc = "loop" /\ id_k >= id_n
  /\ id_final' = Append(id_final, id_st)
  /\ id_pc' = "returned"
  /\ UNCHANGED <<id_init, id_params, id_n, id_stream, id_hooks, id_run, id_st, id_dt,
                 id_fiter, id_k, id_diag, id_report, id_hi, id_held, id_seen>>
  /\ UNCHANGED <<reqVars, runVars, cflVars, stkVars, regVars, valVars, pathVars, tfVars>>

\* The initial states: empty, the fields the observers sum as numbers, and
\* one with a field that is no number.
IdStateVals ==
  { EmptyMap, MapV("T" :> IntV(1)),
    MapV(("T" :> IntV(6)) @@ ("q" :> IntV(2)) @@ ("u" :> IntV(-1)) @@ ("v" :> IntV(0))),
    MapV(("q" :> StrV) @@ ("misc" :> MapV("seed" :> IntV(42)))) }

\* The forcing sources: a function of k, a list (iter() gives every run
\* its own iterator) and an iterator object (the runs pull from the same).
IdStreams ==
  { [callable |-> TRUE, items |-> <<>>, oneshot |-> FALSE],
    [callable |-> FALSE, items |-> <<MapV("heat" :> IntV(1))>>, oneshot |-> FALSE],
    [callable |-> FALSE, items |-> <<MapV("heat" :> IntV(1))>>, oneshot |-> TRUE] }

IdHookTuples == UNION { [1..n -> BudgetKinds] : n \in 0..MaxHooks }

\* No run with the identity step is in progress.
IdIdle ==
  /\ id_init = EmptyMap /\ id_params = EmptyMap /\ id_n = 0
  /\ id_stream = [callable |-> TRUE, items |-> <<>>, oneshot |-> FALSE] /\ id_hooks = <<>>
  /\ id_run = 0 /\ id_st = EmptyMap /\ id_dt = 1
  /\ id_fiter = _as_iter([callable |-> TRUE, items |-> <<>>])
  /\ id_k = 0 /\ id_diag = <<>> /\ id_report = NoReport /\ id_hi = 1 /\ id_pc = "idle"
  /\ id_held = <<>> /\ id_seen = <<>> /\ id_final = <<>>

AuxIdle == PathIdle /\ TfIdle /\ IdIdle

\* No run is in progress.
RunIdle ==
  /\ n_steps = 0 /\ hooks = <<>> /\ init = EmptyMap /\ run_params = EmptyMap
  /\ fiter = _as_iter([callable |-> FALSE, items |-> <<>>]) /\ run_dt = 1
  /\ pc = "idle" /\ k = 0 /\ st = EmptyMap /\ run_diag = <<>>
  /\ report = [per_step_sec |-> <<>>, last_diag |-> NoDiag]
  /\ hookIdx = 1 /\ clock = 0 /\ pulls = 0 /\ stepCalls = 0
  /\ stepResults = <<>> /\ hookLog = <<>> /\ runExc = "none"
  /\ step_fn = [advance |-> FALSE, diag |-> ("gcmi_mw" :> <<>>)]
  /\ run_stream = [callable |-> FALSE, items |-> <<>>] /\ stepLog = <<>>

\* No requirements-check wrapper is in use.
ReqIdle ==
  /\ fnRequires = [f \in Fns |-> <<>>] /\ fnWrapped = [f \in Fns |-> 0]
  /\ extra = <<>> /\ max_checks = 0 /\ raise_on_error = FALSE
  /\ record_warnings = FALSE /\ call_count = 0 /\ stepDiag = <<>>
  /\ invocations = 0 /\ last = NoLast

\* The state after  wrapped = with_requirements_check(step, extra=...,
\* max_checks=..., raise_on_error=..., record_warnings=...).
InitReq ==
  /\ \E c \in ReqConfigs :
       /\ fnRequires = (WrapperFn :> <<>>) @@ (StepFn :> c[1]) @@ (InnerFn :> c[2])
       /\ fnWrapped = (WrapperFn :> StepFn) @@ (StepFn :> IF c[3] THEN InnerFn ELSE 0)
                        @@ (InnerFn :> 0)
       /\ extra = c[4]
  /\ max_checks \in 0..MaxChecks
  /\ raise_on_error \in BOOLEAN
  /\ record_warnings \in BOOLEAN
  /\ call_count = 0
  /\ stepDiag = <<>>
  /\ invocations = 0
  /\ last = NoLast
  /\ RunIdle /\ CflIdle /\ StkIdle /\ RegIdle /\ ValIdle /\ AuxIdle

Call ==
  /\ invocations < MaxCalls
  /\ \E forcing \in ForcingVals, params \in ParamsVals,
        ret \in StepReturns, st2 \in StateVals :
       wrapped(EmptyMap, forcing, params, 1, ret, st2)

NextReq == Call

SpecReq == InitReq /\ [][NextReq]_vars

\* run_fn(init, params, forcing_stream, xp=xp, n_steps=n_steps, hooks=hooks)
\* at the head of its loop (lines 232-238).
InitRun ==
  /\ n_steps \in 0..MaxSteps
  /\ hooks \in HookTuples
  /\ init \in StateVals
  /\ run_params \in RunParamsVals
  /\ run_stream \in ForcingStreams
  /\ fiter = _as_iter(run_stream)
  /\ run_dt = ResolveDt(run_params)
  /\ pc = "loop" /\ k = 0 /\ st = init /\ run_diag = <<>>
  /\ report = [per_step_sec |-> <<>>, last_diag |-> NoDiag]
  /\ hookIdx = 1 /\ clock = 0 /\ pulls = 0 /\ stepCalls = 0
  /\ stepResults = <<>> /\ hookLog = <<>> /\ runExc = "none" /\ stepLog = <<>>
  /\ step_fn \in StepFns
  /\ ReqIdle /\ CflIdle /\ StkIdle /\ RegIdle /\ ValIdle /\ AuxIdle

NextRun == RunStep \/ NotifyHook \/ EndIteration \/ Return

SpecRun == InitRun /\ [][NextRun]_vars

\* wrapped = with_cfl_guard(step, cfl_max=..., wave_speed_cb=...) has been
\* built and is called as wrapped(state, forcing, params, dt, xp=xp).
InitCfl ==
  /\ cfl_max \in CflMaxVals
  /\ wave_speed \in WaveSpeeds
  /\ inner_step \in InnerSteps
  /\ cfl_state = CflState0
  /\ cfl_forcing \in ForcingVals
  /\ cfl_params \in CflParamsVals
  /\ cfl_dt \in CflDts
  /\ vmax = Rat(0, 1) /\ dx = Rat(1, 1) /\ cfl = Rat(0, 1)
  /\ n_sub = 0 /\ dt_sub = Rat(0, 1) /\ cfl_st = NoneV /\ last_diag = <<>>
  /\ sub_i = 0 /\ cfl_pc = "called" /\ innerCalls = <<>>
  /\ cflRet = NoRet /\ cflExc = "none"
  /\ ReqIdle /\ RunIdle /\ StkIdle /\ RegIdle /\ ValIdle /\ AuxIdle

NextCfl == CflEnter \/ CflSingle \/ CflSubstep \/ CflFinish

SpecCfl == InitCfl /\ [][NextCfl]_vars

\* A stack has been assembled with the with_* functions around a step, with
\* requirements attached by @requires, and run_fn or the driver's run is
\* called on it.
InitStack ==
  /\ stk_runner \in Runners
  /\ stk_stack \in Stacks
  /\ stk_base \in BaseRets
  /\ stk_wave \in (IF \E i \in DOMAIN stk_stack : stk_stack[i] = "cfl_guard"
                     THEN StackWaves ELSE {0})
  /\ stk_params0 \in StackParamsVals
  /\ stk_params = stk_params0
  /\ stk_n \in {0, MaxIters}
  /\ stk_pc = "start" /\ stk_k = 0 /\ stk_st = CflState0 /\ stk_dt = Rat(1, 1)
  /\ stk_report = NoReport /\ stk_seen = <<>> /\ stk_notified = <<>>
  /\ stk_stepExc = "none" /\ stk_exc = "none" /\ stk_badDiag = FALSE
  /\ \E placement \in ReqPlacements :
       fnRequires = [f \in StackFns |-> PlacedOn(placement, stk_stack, f)]
  /\ fnWrapped = [f \in StackFns |->
                   IF f <= Len(stk_stack) /\ ExposesWrapped(stk_stack[f]) THEN f + 1 ELSE 0]
  /\ extra = <<>> /\ max_checks = MaxChecks
  /\ raise_on_error \in (IF \E i \in DOMAIN stk_stack : stk_stack[i] = "requirements_check"
                           THEN BOOLEAN ELSE {FALSE})
  /\ record_warnings = TRUE /\ call_count = 0 /\ stepDiag = <<>>
  /\ invocations = 0 /\ last = NoLast
  /\ RunIdle /\ CflIdle /\ RegIdle /\ ValIdle /\ AuxIdle

NextStack == StackStart \/ StackIterate \/ StackReturn

SpecStack == InitStack /\ [][NextStack]_vars

\* Callables with no requirements attached, linked by __wrapped__ in some way.
InitReg ==
  /\ fnRequires = [f \in Fns |-> <<>>]
  /\ fnWrapped \in WrappedVals
  /\ extra = <<>> /\ max_checks = 0 /\ raise_on_error = FALSE
  /\ record_warnings = FALSE /\ call_count = 0 /\ stepDiag = <<>>
  /\ invocations = 0 /\ last = NoLast
  /\ RegIdle /\ RunIdle /\ CflIdle /\ StkIdle /\ ValIdle /\ AuxIdle

NextReg ==
  \/ \E f \in Fns, reqs \in AttachVals : Attach(f, reqs)
  \/ \E f \in Fns : WalkBegin(f)
  \/ WalkStep
  \/ WalkEnd

SpecReg == InitReg /\ [][NextReg]_vars

\* get_requirements is called on callables that have requirements attached
\* or not and are linked by __wrapped__ in some way; its loop is not
\* suspended forever.
InitWalk ==
  /\ fnRequires \in [Fns -> {<<>>, <<RErr>>, <<RWarn, RErr>>}]
  /\ fnWrapped \in WrappedVals
  /\ extra = <<>> /\ max_checks = 0 /\ raise_on_error = FALSE
  /\ record_warnings = FALSE /\ call_count = 0 /\ stepDiag = <<>>
  /\ invocations = 0 /\ last = NoLast
  /\ RegIdle /\ RunIdle /\ CflIdle /\ StkIdle /\ ValIdle /\ AuxIdle

NextWalk ==
  \/ \E f \in Fns : WalkBegin(f)
  \/ WalkStep
  \/ WalkEnd

SpecWalk == InitWalk /\ [][NextWalk]_vars /\ WF_vars(WalkStep) /\ WF_vars(WalkEnd)

\* validate_requirements(state=..., params=..., forcing=..., requirements=...)
\* has been called: errors = [], warns = [].
InitVal ==
  /\ val_state = EmptyMap
  /\ val_params \in ValParamsVals
  /\ val_forcing \in ValForcingVals
  /\ val_reqs \in ValReqLists
  /\ val_errors = <<>> /\ val_warns = <<>> /\ val_pc = "validating" /\ val_out = <<>>
  /\ ReqIdle /\ RunIdle /\ CflIdle /\ StkIdle /\ RegIdle /\ AuxIdle

NextVal == ValidateOne \/ ValidateReturn

SpecVal == InitVal /\ [][NextVal]_vars

\* A transform wrapper has been made and is called with
\* (state, forcing, params, dt, xp=xp).
InitTransform ==
  /\ \E c \in TfClosures : tf_kind = c[1] /\ tf_coeff = c[2] /\ tf_vars = c[3]
  /\ tf_inner \in TfInners
  /\ \E xp \in Backends : tf_args = TfArgs(xp)
  /\ tf_st = NoneV /\ tf_dg = NoneV /\ tf_i = 1 /\ tf_pc = "call"
  /\ tf_calls = <<>> /\ tf_applied = <<>> /\ tf_ret = NoTfRet /\ tf_exc = "none"
  /\ ReqIdle /\ RunIdle /\ CflIdle /\ StkIdle /\ RegIdle /\ ValIdle /\ PathIdle /\ IdIdle

NextTransform == TransformCall \/ TransformApply \/ TransformFinish

SpecTransform == InitTransform /\ [][NextTransform]_vars

\* A mapping and a dotted path are given to both resolvers.
InitPath ==
  /\ path_d \in PathMappings /\ path_p \in PathVals
  /\ path_req = NoResolution /\ path_struct = NoResolution
  /\ ReqIdle /\ RunIdle /\ CflIdle /\ StkIdle /\ RegIdle /\ ValIdle /\ TfIdle /\ IdIdle

NextPath == ResolveForRequirement \/ ResolveForTakeNested

SpecPath == InitPath /\ [][NextPath]_vars

----------------------------------------------------------------------------
\* run_fn is about to be called, MaxRuns times over, with the identity
\* step_fn and the same init, params, forcing source, n_steps and hooks.
InitIdent ==
  /\ id_init \in IdStateVals
  /\ id_params \in RunParamsVals
  /\ id_n \in 0..MaxSteps
  /\ id_stream \in IdStreams
  /\ id_hooks \in IdHookTuples
  /\ id_run = 0 /\ id_st = EmptyMap /\ id_dt = 1
  /\ id_fiter = _as_iter([callable |-> TRUE, items |-> <<>>])
  /\ id_k = 0 /\ id_diag = <<>> /\ id_report = NoReport /\ id_hi = 1 /\ id_pc = "returned"
  /\ id_held = <<>> /\ id_seen = <<>> /\ id_final = <<>>
  /\ ReqIdle /\ RunIdle /\ CflIdle /\ StkIdle /\ RegIdle /\ ValIdle /\ PathIdle /\ TfIdle

NextIdent == IdStart \/ IdStep \/ IdNotify \/ IdEndIteration \/ IdReturn

SpecIdent == InitIdent /\ [][NextIdent]_vars

----------------------------------------------------------------------------

\* Claims about the requirements-check wrapper (SpecReq).

\* What validating the last invocation's arguments against the step's
\* requirements and extra yields, evaluated independently of the wrapper.
LastViolations ==
  validate_requirements(last.args.state, last.args.params, last.args.forcing,
                        get_requirements(StepFn) \o extra)
LastViolated == LastViolations.errors # <<>> \/ LastViolations.warns # <<>>

RequirementsOf(diag) ==
  IF "gcmi_requirements" \in DOMAIN diag THEN diag["gcmi_requirements"] ELSE <<>>

C2_RaisesBeforeStep ==
  (/\ invocations > 0 /\ raise_on_error
   /\ last.count0 < max_checks /\ LastViolations.errors # <<>>)
  => /\ last.outcome = "raised"
     /\ last.exc.type = "RequirementError"
     /\ last.exc.header = "Requirements not satisfied:"
     /\ last.exc.violations = LastViolations.errors
     /\ last.stepCalls = 0

\* C2 witness: an invocation has failed with a RequirementError.
C2_Witness ==
  /\ raise_on_error /\ last.count0 < max_checks
  /\ last.exc.type = "RequirementError" /\ last.stepCalls = 0

\* C3 (as stated): after any sequence of n invocations, however each one
\* ended, the wrapper's counter equals n.
C3_CounterCountsInvocations == call_count = invocations

\* The violations the last invocation's validation found.
Found == last.errors \o last.warns
InRange(seq) == {seq[i] : i \in 1..Len(seq)}
CarriedByError(v) == last.exc.type = "RequirementError" /\ v \in InRange(last.exc.violations)
RecordedInDiag(v) ==
  /\ last.outcome = "returned"
  /\ Len(RequirementsOf(last.diag)) = Len(RequirementsOf(last.stepDiag)) + 1
  /\ LET rec == last.diag["gcmi_requirements"][Len(last.diag["gcmi_requirements"])]
     IN Brief(<<v>>)[1] \in InRange(IF v.severity = "error" THEN rec.errors ELSE rec.warnings)

C24_NoValidationPastMaxChecks ==
  (invocations > 0 /\ last.count0 >= max_checks) =>
    /\ last.checked = 0 /\ last.errors = <<>> /\ last.warns = <<>>
    /\ last.exc.type # "RequirementError"
    /\ last.stepCalls = 1
    /\ last.stepArgs = last.args
    /\ last.outcome = "returned" =>
         /\ last.st = last.stepSt
         /\ last.diag = last.stepDiag

\* C24 witness: with max_checks = 1 and a requirement that the params do
\* not meet, a later invocation went through to the step and returned.
C24_Witness ==
  /\ invocations > 0 /\ max_checks = 1 /\ last.count0 >= 1
  /\ raise_on_error /\ record_warnings
  /\ fnRequires[StepFn] = <<RErr>> /\ last.args.params = EmptyMap
  /\ last.outcome = "returned" /\ last.stepCalls = 1

----------------------------------------------------------------------------
\* Claims about the run loop (SpecRun).

\* C5: a completed run of n_steps iterations returns a report with exactly
\* n_steps durations, none negative, and with last_diag None exactly when
\* n_steps = 0; for n_steps = 0 the state returned is init and no forcing was
\* pulled, no step and no hook called.  While the loop runs, the number of
\* recorded durations is the number of iterations whose step has returned.
C5_ReportOfRun ==
  /\ pc = "done" =>
       /\ Len(report.per_step_sec) = n_steps
       /\ \A i \in 1..Len(report.per_step_sec) : report.per_step_sec[i] >= 0
       /\ report.last_diag.none <=> (n_steps = 0)
       /\ (n_steps = 0) =>
            st = init /\ stepCalls = 0 /\ pulls = 0 /\ hookLog = <<>>
  /\ Len(report.per_step_sec) = Len(stepResults)

\* C5 witness: a run of two iterations has completed, its first step took
\* time, and its report carries the last diag.
C5_Witness ==
  /\ pc = "done" /\ n_steps = 2 /\ Len(report.per_step_sec) = 2
  /\ report.per_step_sec[1] > 0 /\ ~report.last_diag.none

\* The calls of hook h in iteration j that ran the observer's body.
BodyRuns(j, h) ==
  {i \in 1..Len(hookLog) :
     hookLog[i].k = j /\ hookLog[i].hook = h /\ hookLog[i].entered}

C7_RetryOnlyOnSignatureMismatch ==
  \A i \in 1..Len(hookLog) :
    /\ hookLog[i].rich =>
         /\ i > 1
         /\ ~hookLog[i - 1].rich
         /\ hookLog[i - 1].hook = hookLog[i].hook /\ hookLog[i - 1].k = hookLog[i].k
         /\ hookLog[i - 1].result = "TypeError" /\ ~hookLog[i - 1].entered
    /\ (hookLog[i].entered /\ hookLog[i].result # "ok") =>
         i = Len(hookLog) /\ pc = "failed" /\ runExc = hookLog[i].result

\* The forcing the i-th iteration (counted from 1) is due, read off the
\* forcing_stream argument.
ForcingDue(i) ==
  IF run_stream.callable THEN ForcingAt(i - 1)
  ELSE IF i <= Len(run_stream.items) THEN run_stream.items[i]
  ELSE EmptyMap

\* C25: every iteration pulls exactly one forcing, before its step is
\* called, and hands it to the step: a callable source is called with
\* 0, 1, 2, ..., a sequence gives its elements in order, and after the end
\* of a sequence the step gets {} and the run goes on to n_steps iterations.
C25_OneForcingPerIteration ==
  /\ pulls = Len(stepLog)
  /\ \A i \in 1..Len(stepLog) :
       /\ stepLog[i].k = i - 1
       /\ stepLog[i].pulled = i
       /\ stepLog[i].forcing = ForcingDue(i)
  /\ pc = "done" => Len(stepLog) = n_steps
  /\ pc = "failed" => runExc \in {"StepError", "TypeError", "ValueError"}

\* C25 witness: a run of two iterations over a sequence of one forcing has
\* completed; the second step got {}.
C25_Witness ==
  /\ pc = "done" /\ n_steps = 2 /\ ~run_stream.callable /\ Len(run_stream.items) = 1
  /\ Len(stepLog) = 2
  /\ stepLog[1].forcing = MapV("heat" :> IntV(1)) /\ stepLog[2].forcing = EmptyMap

C27_StepSecClobbersNothing ==
  \A i \in 1..Len(stepResults) :
    LET before == step_fn.diag
        after == stepResults[i].diag
    IN /\ DOMAIN after = DOMAIN before \cup {"timings"}
       /\ \A key \in DOMAIN before \ {"timings"} : after[key] = before[key]
       /\ "timings" \in DOMAIN before =>
            /\ DOMAIN after["timings"] = DOMAIN before["timings"] \cup {"step_sec"}
            /\ \A key \in DOMAIN before["timings"] \ {"step_sec"} :
                 after["timings"][key] = before["timings"][key]
       /\ "timings" \notin DOMAIN before => DOMAIN after["timings"] = {"step_sec"}
       /\ after["timings"]["step_sec"] = report.per_step_sec[i]

\* C27 witness: the step returned a diag whose timings had inner_sec; after
\* the loop set step_sec = 1, inner_sec is still there.
C27_Witness ==
  /\ Len(stepResults) >= 1
  /\ "timings" \in DOMAIN step_fn.diag
  /\ stepResults[1].diag["timings"]["inner_sec"] = 1
  /\ stepResults[1].diag["timings"]["step_sec"] = 1

----------------------------------------------------------------------------
\* Claims about the CFL guard (SpecCfl).

\* The cfl_guard entry the call appended to the diag it returned.
GuardMeta == cflRet.diag["gcmi_mw"][Len(cflRet.diag["gcmi_mw"])]

\* n is the ceiling of the quotient q.
IsCeilOf(n, q) == RLe(q, Rat(n, 1)) /\ RLt(Rat(n - 1, 1), q)

\* The call has computed cfl and found it above cfl_max.
CflExceeded == cfl_pc \in {"substeps", "returned", "raised"} /\ RLt(cfl_max, cfl)

\* C8 (as stated): whenever a call with cfl > cfl_max has recorded its
\* metadata, n_substeps is ceil(cfl / cfl_max) and at least 2.
C8_SubstepsWheneverExceeded ==
  (cfl_pc = "returned" /\ CflExceeded) =>
    /\ IsCeilOf(GuardMeta.n_substeps, RDiv(cfl, cfl_max))
    /\ GuardMeta.n_substeps >= 2

\* C8 (amended): with cfl_max > 0, a call with cfl > cfl_max that has
\* recorded its metadata has n_substeps = ceil(cfl / cfl_max) >= 2, which is
\* 20 for wave speed 10, dx_min 1, dt 1, cfl_max 0.5.  With cfl_max < 0 the
\* recorded n_substeps is 1, and with cfl_max = 0 the call raises a
\* ZeroDivisionError before it calls the step.
C8_SubstepsForPositiveCflMax ==
  /\ (cfl_pc = "returned" /\ CflExceeded /\ cfl_max.n > 0) =>
       /\ IsCeilOf(GuardMeta.n_substeps, RDiv(cfl, cfl_max))
       /\ GuardMeta.n_substeps >= 2
       /\ (vmax = Rat(10, 1) /\ dx = Rat(1, 1) /\ cfl_dt = Rat(1, 1)
           /\ cfl_max = Rat(1, 2)) => GuardMeta.n_substeps = 20
  /\ (cfl_pc = "returned" /\ CflExceeded /\ cfl_max.n < 0) =>
       GuardMeta.n_substeps = 1
  /\ (CflExceeded /\ cfl_max.n = 0) =>
       cfl_pc = "raised" /\ cflExc = "ZeroDivisionError" /\ innerCalls = <<>>

\* C8 witness: the call of the test has returned with 20 substeps recorded.
C8_Witness ==
  /\ cfl_pc = "returned" /\ wave_speed = 10 /\ dx = Rat(1, 1)
  /\ cfl_dt = Rat(1, 1) /\ cfl_max = Rat(1, 2) /\ cfl = Rat(10, 1)
  /\ GuardMeta.name = "cfl_guard" /\ GuardMeta.n_substeps = 20

\* The call is one with vmax = 0, dt = 0 or dx = 0.
ZeroCase == wave_speed = 0 \/ cfl_dt.n = 0 \/ ResolveDx(cfl_params).n = 0

\* C9: when vmax = 0, dt = 0 or dx = 0 the guard calls the wrapped step
\* once, with the caller's state and the original dt, and records
\* n_substeps = 1, whatever cfl_max is; it never divides by a zero dx.
C9_SingleStepOnZero ==
  ZeroCase =>
    /\ cflExc # "ZeroDivisionError"
    /\ cfl_pc # "substeps"
    /\ Len(innerCalls) <= 1
    /\ \A i \in 1..Len(innerCalls) :
         innerCalls[i].dt = cfl_dt /\ innerCalls[i].state = cfl_state
    /\ cfl_pc = "returned" =>
         /\ Len(innerCalls) = 1
         /\ GuardMeta.name = "cfl_guard" /\ GuardMeta.n_substeps = 1
         /\ GuardMeta.dt = cfl_dt

\* C9 witness: a call with dx = 0, a nonzero wave speed and dt and a
\* negative cfl_max has returned after one step.
C9_Witness ==
  /\ cfl_pc = "returned" /\ dx.n = 0 /\ wave_speed = 10 /\ cfl_dt = Rat(2, 1)
  /\ cfl_max.n < 0 /\ Len(innerCalls) = 1 /\ GuardMeta.n_substeps = 1

\* C10: in the substepping branch the wrapped step is called at most n_sub
\* times, each time with dt / n_sub and the caller's forcing and params,
\* the first time with the caller's state and then with the state the
\* previous call returned; when the guard returns it has made exactly n_sub
\* calls and returns the state of the last one.  In either branch the
\* recorded n_substeps is the number of calls of the wrapped step.
C10_SubstepsChain ==
  /\ n_sub > 0 =>
       /\ Len(innerCalls) <= n_sub
       /\ \A i \in 1..Len(innerCalls) :
            /\ RMul(innerCalls[i].dt, Rat(n_sub, 1)) = cfl_dt
            /\ innerCalls[i].forcing = cfl_forcing
            /\ innerCalls[i].params = cfl_params
            /\ innerCalls[i].state =
                 IF i = 1 THEN cfl_state ELSE innerCalls[i - 1].out
            /\ innerCalls[i].raised => i = Len(innerCalls) /\ cfl_pc = "raised"
       /\ cfl_pc = "returned" =>
            /\ Len(innerCalls) = n_sub
            /\ cflRet.st = innerCalls[n_sub].out
  /\ cfl_pc = "returned" => GuardMeta.n_substeps = Len(innerCalls)

\* C10 witness: a guard around a step that advances the state has returned
\* after more than two substeps, with a state that is not the caller's.
C10_Witness ==
  /\ cfl_pc = "returned" /\ n_sub > 2 /\ inner_step.advance
  /\ Len(innerCalls) = n_sub /\ cflRet.st # cfl_state
  /\ cflRet.st = MapV("T" :> IntV(n_sub))

----------------------------------------------------------------------------
\* Claims about a run over a stack of middleware (SpecStack).

\* C11: params is never mutated: at every point of a run over any stack of
\* the provided middleware the params object holds what it held when the
\* run began, and every callable of the stack, the innermost step included,
\* was handed params with that content on every call.
C11_ParamsNeverMutated ==
  /\ stk_params = stk_params0
  /\ \A i \in 1..Len(stk_seen) : stk_seen[i].params = stk_params0

\* C11 witness: a run of two iterations over a requirements check around a
\* CFL guard, on params that lack the keys both of them and the loop look
\* up, has completed.
C11_Witness ==
  /\ stk_pc = "done" /\ stk_n = 2 /\ stk_params0 = EmptyMap
  /\ stk_stack = <<"requirements_check", "cfl_guard">>
  /\ fnRequires[3] = <<RErr>> /\ Len(stk_seen) >= 6

\* C12 (as stated): a step that returns a diag that is None or not a
\* mapping never makes the run fail for the lack of a mapping.
C12_MissingDiagNeverFails ==
  stk_badDiag => stk_exc # "AttributeError"

\* The calls of the outermost callable made so far: the iterations started.
OuterCalls == Cardinality({ i \in 1..Len(stk_seen) : stk_seen[i].fn = 1 })

\* C13: when the step called by the loop raises in iteration k, the run
\* has failed with that very exception, the report holds the k durations
\* of the earlier iterations, the observer was notified for iterations
\* before k only, and k + 1 iterations were started; a run that is done
\* has completed all n_steps iterations.
C13_StepFailureAborts ==
  /\ stk_stepExc # "none" =>
       /\ stk_pc = "failed" /\ stk_exc = stk_stepExc
       /\ Len(stk_report.per_step_sec) = stk_k
       /\ Len(stk_notified) = stk_k
       /\ \A i \in 1..Len(stk_notified) : stk_notified[i].k < stk_k
       /\ OuterCalls = stk_k + 1
  /\ stk_pc = "done" =>
       /\ stk_k = stk_n /\ OuterCalls = stk_n
       /\ Len(stk_report.per_step_sec) = stk_n /\ Len(stk_notified) = stk_n

\* C13 witness: the step raised in the second iteration of a run through a
\* wrapper; one duration and one notification are there.
C13_Witness ==
  /\ stk_pc = "failed" /\ stk_stepExc = "StepError" /\ stk_k = 1 /\ stk_n = 2
  /\ Len(stk_stack) >= 1 /\ Len(stk_report.per_step_sec) = 1 /\ Len(stk_notified) = 1

\* What is attached to the callables of the stack from f inwards.
RECURSIVE AttachedFrom(_)
AttachedFrom(f) ==
  IF f > Len(stk_stack) + 1 THEN <<>> ELSE fnRequires[f] \o AttachedFrom(f + 1)

\* C14: every wrapper of the stack points back to the callable it wraps,
\* so get_requirements on the outermost wrapper returns what is attached to
\* every layer and to the innermost step.
C14_ChainThroughMiddleware ==
  /\ \A f \in 1..Len(stk_stack) : fnWrapped[f] = f + 1
  /\ get_requirements(1) = AttachedFrom(1)

\* C14 witness: a requirements check around a flux limiter around a step
\* with an unmet requirement has recorded that requirement's violation.
C14_Witness ==
  /\ stk_pc = "done" /\ stk_n >= 1
  /\ stk_stack = <<"requirements_check", "flux_limiter">>
  /\ fnRequires[3] = <<RErr>> /\ fnRequires[2] = <<RWarn>>
  /\ get_requirements(1) = <<RWarn, RWarn, RErr>>
  /\ "gcmi_requirements" \in DOMAIN stk_report.last_diag.val
  /\ Len(stk_report.last_diag.val["gcmi_requirements"][1].errors) = 1

\* The names of the entries of diag["gcmi_mw"], in list order.
MetaNames(diag) ==
  IF "gcmi_mw" \in DOMAIN diag
    THEN [j \in 1..Len(diag["gcmi_mw"]) |-> diag["gcmi_mw"][j].name]
    ELSE <<>>

\* The layers of the stack that write under gcmi_mw (the requirements check
\* writes under gcmi_requirements), from the innermost to the outermost.
RECURSIVE InnermostFirst(_)
InnermostFirst(stack) ==
  IF stack = <<>> THEN <<>>
  ELSE InnermostFirst(Tail(stack))
         \o (IF Head(stack) = "requirements_check" THEN <<>> ELSE <<Head(stack)>>)

\* C30 (as stated): in every iteration, the diag the stack returned has
\* under gcmi_mw exactly one entry per layer, the innermost layer's first
\* and the outermost layer's last, whether or not the CFL guard substepped
\* and whether the step returns a new dict or the dict it keeps.
C30_OneEntryPerLayer ==
  \A i \in 1..Len(stk_notified) :
    MetaNames(stk_notified[i].diag) = InnermostFirst(stk_stack)

----------------------------------------------------------------------------
\* Claims about the registry (SpecReg, SpecWalk).

\* What the calls of requires logged in log handed to f, in their order.
RECURSIVE AttachedTo(_, _)
AttachedTo(f, log) ==
  IF log = <<>> THEN <<>>
  ELSE (IF Head(log).fn = f THEN Head(log).reqs ELSE <<>>) \o AttachedTo(f, Tail(log))

\* C15: what is attached to a callable is the concatenation, in the order
\* of the calls, of everything requires was given for it: a later call
\* appends and neither replaces nor reorders.
C15_AttachAdditive ==
  \A f \in Fns : fnRequires[f] = AttachedTo(f, attachLog)

\* C15 witness: requires was applied twice to the same callable.
C15_Witness ==
  /\ Len(attachLog) = 2 /\ attachLog[1].fn = 1 /\ attachLog[2].fn = 1
  /\ attachLog[1].reqs = <<RWarn, RErr>> /\ attachLog[2].reqs = <<RErr>>
  /\ fnRequires[1] = <<RWarn, RErr, RErr>>

\* What is attached to the links of a chain, link after link.
RECURSIVE RequirementsOfLinks(_)
RequirementsOfLinks(links) ==
  IF links = <<>> THEN <<>>
  ELSE fnRequires[Head(links)] \o RequirementsOfLinks(Tail(links))

\* The number of occurrences in reqs that have the severity "error".
ErrorOccurrences(reqs) ==
  Cardinality({ i \in 1..Len(reqs) : reqs[i].severity = "error" })

\* C16: get_requirements returns what is attached to the links it visited,
\* the outermost link first and each link's requirements in attachment
\* order, one entry per declaration; and validate_requirements reports each
\* occurrence of an unmet requirement separately.
C16_OrderedNoDedup ==
  walk_pc = "done" =>
    /\ walk_reqs = RequirementsOfLinks(walk_visits)
    /\ walk_reqs = get_requirements(walk_fn)
    /\ LET res == validate_requirements(EmptyMap, EmptyMap, EmptyMap, walk_reqs)
       IN /\ Len(res.errors) = ErrorOccurrences(walk_reqs)
          /\ Len(res.errors) + Len(res.warns) = Len(walk_reqs)

\* C16 witness: the same requirement is declared twice on the outer link
\* and once more on the inner link, and is returned three times.
C16_Witness ==
  /\ walk_pc = "done" /\ walk_visits = <<1, 2>>
  /\ fnRequires[1] = <<RErr, RErr>> /\ fnRequires[2] = <<RWarn, RErr>>
  /\ walk_reqs = <<RErr, RErr, RWarn, RErr>>

\* The links visited are the chain from the argument on, each once; seen
\* holds them; each link's requirements were collected once.
C17_WalkShape ==
  /\ \A i, j \in 1..Len(walk_visits) : i # j => walk_visits[i] # walk_visits[j]
  /\ walk_seen = { walk_visits[i] : i \in 1..Len(walk_visits) }
  /\ \A i \in 1..Len(walk_visits) :
       walk_visits[i] = IF i = 1 THEN walk_fn ELSE fnWrapped[walk_visits[i - 1]]
  /\ Len(walk_reqs) = Len(RequirementsOfLinks(walk_visits))
  /\ walk_pc = "done" =>
       /\ walk_cur = 0 \/ walk_cur \in walk_seen
       /\ walk_visits # <<>> => walk_cur = fnWrapped[walk_visits[Len(walk_visits)]]

\* C17: the chain walk of get_requirements terminates on every chain,
\* cycles included: it visits each link at most once, stops at the first
\* link without a back-reference or already visited, and collects each
\* visited link's requirements once.
C17_ChainWalkTerminates ==
  /\ []C17_WalkShape
  /\ (walk_pc = "walking") ~> (walk_pc = "done")

\* C17 witness: a walk over a chain whose back-references form a cycle
\* through all callables has returned.
C17_Witness ==
  /\ walk_pc = "done" /\ walk_fn = 1 /\ walk_visits = <<1, 2, 3>>
  /\ fnWrapped[1] = 2 /\ fnWrapped[2] = 3 /\ fnWrapped[3] = 1
  /\ walk_cur = 1 /\ Len(walk_reqs) >= 2

----------------------------------------------------------------------------
\* Claims about validate_requirements (SpecVal).

\* The container r names, read off the arguments.
ContainerAbsent(r) ==
  \/ r.where = "state" /\ val_state = NoneV
  \/ r.where = "params" /\ val_params = NoneV
  \/ r.where = "forcing" /\ val_forcing = NoneV
  \/ r.where \notin {"state", "params", "forcing"}
ContainerOf(r) ==
  IF r.where = "state" THEN val_state
  ELSE IF r.where = "params" THEN val_params ELSE val_forcing

\* The path of r, of one or two segments, leads to a value in container c.
Reaches(c, path) ==
  /\ c.kind = "map" /\ path[1] \in DOMAIN c.m
  /\ Len(path) = 2 => c.m[path[1]].kind = "map" /\ path[2] \in DOMAIN c.m[path[1]].m
ValueAt(c, path) ==
  IF Len(path) = 2 THEN c.m[path[1]].m[path[2]] ELSE c.m[path[1]]

\* The pass for the i-th requirement produced exactly one violation, at
\* the requirement's severity, in the list of that severity.
OneViolation(i) ==
  /\ Len(val_out[i].violations) = 1
  /\ val_out[i].violations[1].severity = val_reqs[i].severity
  /\ val_out[i].violations[1].requirement = val_reqs[i]
  /\ val_out[i].violations[1].where = val_reqs[i].where
  /\ val_out[i].violations[1].path = val_reqs[i].path
  /\ \E j \in 1..Len(IF val_reqs[i].severity = "error" THEN val_errors ELSE val_warns) :
       (IF val_reqs[i].severity = "error" THEN val_errors ELSE val_warns)[j]
         = val_out[i].violations[1]

\* Every requirement got its pass, and errors and warns hold what the
\* passes produced.
AllPassesMade ==
  /\ val_pc = "done" =>
       /\ Len(val_out) = Len(val_reqs)
       /\ [errors |-> val_errors, warns |-> val_warns]
            = validate_requirements(val_state, val_params, val_forcing, val_reqs)
  /\ Len(val_errors) + Len(val_warns) =
       Cardinality({ i \in 1..Len(val_out) : val_out[i].violations # <<>> })

\* C18: a requirement whose container is None produces exactly one
\* violation at its own severity, required or not, and the loop goes on to
\* the next requirement.
C18_AbsentContainerViolates ==
  /\ \A i \in 1..Len(val_out) :
       ContainerAbsent(val_reqs[i]) =>
         /\ OneViolation(i)
         /\ val_out[i].violations[1].message = "Container is None; cannot check path"
  /\ AllPassesMade

\* C18 witness: a not-required requirement on a None container produced a
\* violation, and so did the requirement after it.
C18_Witness ==
  /\ val_pc = "done" /\ Len(val_reqs) = 2 /\ val_params = NoneV
  /\ val_reqs[1].where = "params" /\ ~val_reqs[1].required
  /\ val_reqs[1].severity = "warn" /\ Len(val_out[1].violations) = 1
  /\ val_reqs[2].where = "forcing" /\ val_forcing = EmptyMap /\ val_reqs[2].required
  /\ Len(val_out[2].violations) = 1 /\ Len(val_warns) + Len(val_errors) = 2

\* C19: when the container is there and the path does not resolve, a
\* not-required requirement produces no violation and a required one
\* exactly one, at its severity; when the path resolves and neither type
\* nor predicate is given, no violation is produced.
C19_MissingPath ==
  \A i \in 1..Len(val_out) :
    LET r == val_reqs[i] IN
    ~ContainerAbsent(r) =>
      /\ (~Reaches(ContainerOf(r), r.path) /\ ~r.required) => val_out[i].violations = <<>>
      /\ (~Reaches(ContainerOf(r), r.path) /\ r.required) => OneViolation(i)
      /\ (Reaches(ContainerOf(r), r.path) /\ r.type = "none" /\ r.predicate = "none") =>
           val_out[i].violations = <<>>

\* C19 witness: of two requirements on a path cut short by a non-mapping,
\* the not-required one passed silently and the required one was reported;
\* the run also is one where nothing else was reported.
C19_Witness ==
  /\ val_pc = "done" /\ Len(val_reqs) = 2
  /\ val_params = MapV("spectral" :> IntV(1))
  /\ val_reqs[1].where = "params" /\ ~val_reqs[1].required
  /\ val_reqs[2].where = "params" /\ val_reqs[2].required /\ val_reqs[2].severity = "error"
  /\ val_out[1].violations = <<>> /\ Len(val_out[2].violations) = 1
  /\ Len(val_errors) = 1 /\ val_warns = <<>>

\* C20: when a type constraint is given and the resolved value does not
\* satisfy it, exactly one violation is produced for the requirement and
\* its predicate is not evaluated.
C20_TypeMismatchStops ==
  \A i \in 1..Len(val_out) :
    LET r == val_reqs[i] IN
    (/\ ~ContainerAbsent(r) /\ Reaches(ContainerOf(r), r.path)
     /\ r.type = "number" /\ ValueAt(ContainerOf(r), r.path).kind # "int") =>
      /\ OneViolation(i)
      /\ val_out[i].violations[1].message = "Expected type"
      /\ ~val_out[i].predicate_called

\* C20 witness: a requirement with a type and a predicate met a string
\* where a number was expected; the same requirement without the type
\* constraint had its predicate called.
C20_Witness ==
  /\ val_pc = "done" /\ Len(val_reqs) = 2
  /\ val_params = MapV("spectral" :> MapV("radius" :> StrV))
  /\ val_reqs[1].type = "number" /\ val_reqs[1].predicate = "positive"
  /\ Len(val_out[1].violations) = 1 /\ ~val_out[1].predicate_called
  /\ val_reqs[2].type = "none" /\ val_reqs[2].predicate = "positive"
  /\ val_out[2].predicate_called

\* C21: when the pass for a requirement gets to its predicate, a predicate
\* that raises on the resolved value yields exactly one violation whose
\* message reports the raise, a predicate that returns false yields exactly
\* one violation, a predicate that returns true yields none, and in every
\* case the loop goes on to the remaining requirements.
C21_PredicateFailureViolates ==
  /\ \A i \in 1..Len(val_out) :
       LET r == val_reqs[i] IN
       val_out[i].predicate_called =>
         LET value == ValueAt(ContainerOf(r), r.path) IN
         /\ value.kind # "int" =>
              /\ OneViolation(i)
              /\ val_out[i].violations[1].message = "Predicate raised"
         /\ (value.kind = "int" /\ value.v <= 0) =>
              /\ OneViolation(i)
              /\ val_out[i].violations[1].message = "Predicate returned False"
         /\ (value.kind = "int" /\ value.v > 0) => val_out[i].violations = <<>>
  /\ AllPassesMade

\* C21 witness: the predicate raised on a string for a warn requirement and
\* for the error requirement after it; both were reported as such.
C21_Witness ==
  /\ val_pc = "done" /\ Len(val_reqs) = 2
  /\ val_params = MapV("spectral" :> MapV("radius" :> StrV))
  /\ val_out[1].predicate_called /\ val_out[2].predicate_called
  /\ val_reqs[1].severity = "warn" /\ val_reqs[2].severity = "error"
  /\ Len(val_warns) = 1 /\ val_warns[1].message = "Predicate raised"
  /\ Len(val_errors) = 1 /\ val_errors[1].message = "Predicate raised"

\* The violations of the passes made so far, in pass order, of one severity.
RECURSIVE ViolationsOf(_, _)
ViolationsOf(out, severity) ==
  IF out = <<>> THEN <<>>
  ELSE LET vs == Head(out).violations
       IN (IF vs # <<>> /\ vs[1].severity = severity THEN vs ELSE <<>>)
            \o ViolationsOf(Tail(out), severity)

\* C22: errors holds only violations of severity error and warns only
\* violations of severity warn, each list is the violations of its severity
\* in the order the requirements were checked, and each requirement
\* contributes at most one violation.
C22_PartitionInCheckOrder ==
  /\ \A j \in 1..Len(val_errors) : val_errors[j].severity = "error"
  /\ \A j \in 1..Len(val_warns) : val_warns[j].severity = "warn"
  /\ val_errors = ViolationsOf(val_out, "error")
  /\ val_warns = ViolationsOf(val_out, "warn")
  /\ \A i \in 1..Len(val_out) :
       /\ Len(val_out[i].violations) <= 1
       /\ val_out[i].violations # <<>> =>
            val_out[i].violations[1].requirement = val_reqs[i]
  /\ val_pc = "done" => Len(val_out) = Len(val_reqs)

\* C22 witness: a warn requirement and then an error requirement were both
\* violated; each list holds the one of its severity.
C22_Witness ==
  /\ val_pc = "done" /\ Len(val_reqs) = 2
  /\ val_reqs[1].severity = "warn" /\ val_reqs[2].severity = "error"
  /\ val_reqs[1].where = "forcing" /\ val_reqs[2].where = "params"
  /\ Len(val_warns) = 1 /\ val_warns[1].requirement = val_reqs[1]
  /\ Len(val_errors) = 1 /\ val_errors[1].requirement = val_reqs[2]

----------------------------------------------------------------------------
\* Claims about dotted-path resolution (SpecPath).

\* How the walk along path in d ends, read off the mapping itself: at a
\* value ("found"), at a mapping without the next key ("missing"), or at a
\* value that is no mapping while segments remain ("non-mapping").
RECURSIVE WalkEnds(_, _)
WalkEnds(d, path) ==
  IF path = <<>> THEN "found"
  ELSE IF d.kind # "map" THEN "non-mapping"
  ELSE IF Head(path) \in DOMAIN d.m THEN WalkEnds(d.m[Head(path)], Tail(path))
  ELSE "missing"

Resolved(res) == res # NoResolution

\* C23: a path that continues below a non-mapping value fails with the
\* non-mapping error and a path with an absent key fails with the
\* missing-key error, in both resolvers, and the two errors differ in what
\* the caller gets (the message of the KeyError of utils/requirements.py,
\* the exception type and the message of utils/struct.py).
C23_TwoKindsOfPathError ==
  /\ Resolved(path_req) =>
       /\ WalkEnds(path_d, path_p) = "non-mapping" =>
            /\ path_req.exc = "KeyError"
            /\ path_req.err = "encountered non-mapping type"
       /\ WalkEnds(path_d, path_p) = "missing" =>
            /\ path_req.exc = "KeyError"
            /\ path_req.err = "Missing key"
       /\ WalkEnds(path_d, path_p) = "found" <=> path_req.ok
  /\ Resolved(path_struct) =>
       /\ WalkEnds(path_d, path_p) = "non-mapping" =>
            /\ path_struct.exc = "TypeError"
            /\ path_struct.err = "Encountered non-mapping object"
       /\ WalkEnds(path_d, path_p) = "missing" =>
            /\ path_struct.exc = "KeyError"
            /\ path_struct.err = "not found while resolving"
       /\ WalkEnds(path_d, path_p) = "found" <=> path_struct.ok

\* C23 witness: "grid.dx_min.value" against {grid: {dx_min: 1000}} failed
\* in both resolvers.
C23_Witness ==
  /\ path_d = MapV("grid" :> MapV("dx_min" :> IntV(1000)))
  /\ path_p = <<"grid", "dx_min", "value">>
  /\ Resolved(path_req) /\ ~path_req.ok
  /\ Resolved(path_struct) /\ path_struct.exc = "TypeError"

----------------------------------------------------------------------------
\* Claims about the transform wrappers (SpecTransform).

\* The call of the wrapper has ended, by return or by exception.
TfEnded == tf_pc \in {"returned", "raised"}

\* dg as returned is dg as the wrapped step gave it with exactly one
\* record, that of this wrapper, appended under gcmi_mw.
OneRecordAppended ==
  /\ tf_pc = "returned"
  /\ tf_inner.diag.kind = "map"
  /\ tf_ret.diag.kind = "map"
  /\ DOMAIN tf_ret.diag.m = DOMAIN tf_inner.diag.m \cup {"gcmi_mw"}
  /\ \A key \in DOMAIN tf_inner.diag.m \ {"gcmi_mw"} :
       tf_ret.diag.m[key] = tf_inner.diag.m[key]
  /\ tf_ret.diag.m["gcmi_mw"] =
       Append(IF "gcmi_mw" \in DOMAIN tf_inner.diag.m
                THEN tf_inner.diag.m["gcmi_mw"] ELSE <<>>,
              MetaRecord(tf_kind, tf_coeff, tf_vars))

\* C28 (as stated): every invocation of a transform wrapper calls the
\* wrapped step exactly once, with the arguments it was given, and, the
\* step having returned, appends exactly one record with the wrapper's
\* name and configuration to the diag the step returned.
C28_OneCallOneRecord ==
  /\ Len(tf_calls) <= 1
  /\ tf_pc # "call" => (Len(tf_calls) = 1 /\ tf_calls[1] = tf_args)
  /\ (TfEnded /\ ~tf_inner.raises) => OneRecordAppended

\* The entries on which the operator failed.
FailedEntries == { tf_applied[j].var : j \in { n \in 1..Len(tf_applied) : tf_applied[n].failed } }

\* C29 (as stated): when the operator has failed on an entry, the entry
\* has the value the wrapped step returned, every named entry present in
\* the state is still processed, the record is appended and the wrapper
\* returns.
C29_OperatorFailureAbsorbed ==
  /\ \A v \in FailedEntries : tf_st.m[v] = tf_inner.st.m[v]
  /\ (TfEnded /\ FailedEntries # {}) =>
       /\ tf_pc = "returned"
       /\ \A v \in FailedEntries : tf_ret.st.m[v] = tf_inner.st.m[v]
       /\ { tf_applied[j].var : j \in 1..Len(tf_applied) } =
            { tf_vars[j] : j \in 1..Len(tf_vars) } \cap DOMAIN tf_inner.st.m
       /\ OneRecordAppended

----------------------------------------------------------------------------
\* Further claims about a run over a stack of middleware (SpecStack).

\* C31 (as stated): when the innermost step has been called and what it
\* returns is not a 2-element (state, diag) result, the run has failed, no
\* timing entry has been appended and no observer has been notified.
C31_MalformedReturnIsFatal ==
  (stk_base \in MalformedRets /\ BaseReached(stk_seen)) =>
    /\ stk_pc = "failed"
    /\ stk_report.per_step_sec = <<>>
    /\ stk_notified = <<>>

\* with_cfl_guard is wrapped directly around a requirements-check wrapper.
GuardOverCheck ==
  \E f \in 1..(Len(stk_stack) - 1) :
    stk_stack[f] = "cfl_guard" /\ stk_stack[f + 1] = "requirements_check"

\* The violation v is in a record of diag["gcmi_requirements"].
InRecords(diag, v) ==
  /\ "gcmi_requirements" \in DOMAIN diag
  /\ \E j \in 1..Len(diag["gcmi_requirements"]) :
       LET rec == diag["gcmi_requirements"][j]
       IN \/ \E x \in 1..Len(rec.errors) : rec.errors[x] = Brief(<<v>>)[1]
          \/ \E x \in 1..Len(rec.warnings) : rec.warnings[x] = Brief(<<v>>)[1]

\* C34 (as stated): with with_cfl_guard around a requirements-check
\* wrapper that has raise_on_error = False and record_warnings = True,
\* every violation found during a guarded call that returned is in the
\* diag the loop got from the guard.
C34_NoViolationLost ==
  (GuardOverCheck /\ ~raise_on_error /\ record_warnings) =>
    \A i \in 1..Len(stk_notified) :
      \A x \in 1..Len(stk_notified[i].found) :
        InRecords(stk_notified[i].diag, stk_notified[i].found[x])

\* C35 (as stated): every invocation of the CFL guard in which the wrapped
\* step returned, with a new dict or with None for its diag, has appended
\* one cfl_guard record to the diag of the last substep and returned it:
\* the run has not failed and the diag of every iteration holds the
\* guard's record and no other.
C35_OneGuardRecord ==
  (stk_stack = <<"cfl_guard">> /\ stk_base \in {"dict", "none"} /\ BaseReached(stk_seen)) =>
    /\ stk_pc # "failed"
    /\ \A i \in 1..Len(stk_notified) : MetaNames(stk_notified[i].diag) = <<"cfl_guard">>

----------------------------------------------------------------------------
\* Further claims about the CFL guard (SpecCfl).

\* The call has computed cfl and the single-step branch does not cover it.
SubstepBranch ==
  /\ cfl_pc \in {"substeps", "returned", "raised"}
  /\ ~SingleStep(cfl, cfl_max, dx, vmax, cfl_dt)

\* C36 (as stated): in the substepping branch, for every cfl_max, zero and
\* negative ones included, computing the substep count does not fail, and
\* a guard that has returned has called the wrapped step at least once and
\* recorded n_substeps >= 1 and dt_sub = dt / n_substeps.
C36_SubstepCountNeverFails ==
  SubstepBranch =>
    /\ cflExc # "ZeroDivisionError"
    /\ cfl_pc = "returned" =>
         /\ Len(innerCalls) >= 1
         /\ GuardMeta.n_substeps >= 1
         /\ RMul(GuardMeta.dt_sub, Rat(GuardMeta.n_substeps, 1)) = cfl_dt

----------------------------------------------------------------------------
\* Further claims about the requirements-check wrapper (SpecReq).

\* The last invocation has appended a record to diag["gcmi_requirements"].
Recorded ==
  /\ last.outcome = "returned"
  /\ ShouldRecord(should_check(last.count0, max_checks), get_requirements(StepFn) \o extra,
                  record_warnings, last.errors, last.warns)

\* C37 (as stated): the record an invocation appends has call equal to the
\* number of invocations made before it, so 0 <= call < max_checks and
\* call increases strictly along the list; max_checks equal to the bound
\* of the wrapper; and checked equal to the number of requirements of the
\* chain plus the extra ones.
C37_RecordTellsInvocation ==
  Recorded =>
    LET recs == last.diag["gcmi_requirements"]
        rec == recs[Len(recs)]
    IN /\ rec.call = invocations - 1
       /\ 0 <= rec.call /\ rec.call < max_checks
       /\ \A j \in 1..(Len(recs) - 1) : recs[j].call < recs[j + 1].call
       /\ rec.max_checks = max_checks
       /\ rec.checked = Len(get_requirements(StepFn)) + Len(extra)

\* C38: with raise_on_error = True and arguments that violate a
\* requirement at error severity in every invocation so far, the
\* invocations up to the max_checks-th raise a RequirementError without
\* calling the wrapped step, and every later one validates nothing, calls
\* the wrapped step once and returns what it returned.
C38_RaisesMaxChecksTimes ==
  (raise_on_error /\ invocations >= 1 /\ last.violated) =>
    /\ invocations <= max_checks =>
         /\ last.outcome = "raised" /\ last.exc = RequirementError(last.errors)
         /\ last.errors # <<>> /\ last.stepCalls = 0
    /\ invocations > max_checks =>
         /\ last.checked = 0 /\ last.errors = <<>> /\ last.stepCalls = 1
         /\ last.exc \in {NoError, StepError}
         /\ last.outcome = "returned" =>
              last.st = last.stepSt /\ last.diag = last.stepDiag

\* C38 witness: with max_checks = 2, the third invocation in a row with
\* violating arguments has returned the step's result.
C38_Witness ==
  /\ raise_on_error /\ max_checks = 2 /\ invocations = 3 /\ last.violated
  /\ last.outcome = "returned" /\ last.stepCalls = 1 /\ call_count = 3

\* C39 (as stated): over the lifetime of one wrapper, whoever invokes it
\* (a run, a later run, a substep of a CFL guard), validate_requirements
\* is called in at most max_checks invocations.
C39_AtMostMaxChecksValidations ==
  last.validations <= max_checks

----------------------------------------------------------------------------
\* Claims about runs with the identity step (SpecIdent).

\* The names of the entries of either state.
FieldsOf(s, t) == DOMAIN s.m \cup DOMAIN t.m

\* C32: with the identity step, the state the loop holds after every
\* iteration is the initial state, whatever the initial state and n_steps
\* are and with the budget observers notified in between; so every
\* per-field total of a returned state is that of the initial state.
C32_IdentityConservesState ==
  /\ \A i \in 1..Len(id_held) : id_held[i].st = id_init
  /\ \A i \in 1..Len(id_seen) : id_seen[i].st = id_init
  /\ \A i \in 1..Len(id_final) :
       \A name \in FieldsOf(id_final[i], id_init) :
         TotalOver(id_final[i], <<name>>) = TotalOver(id_init, <<name>>)

\* C32 witness: a run of MaxSteps iterations from a state with a nonzero q
\* has returned, and both budget observers were notified in it.
C32_Witness ==
  /\ Len(id_final) >= 1 /\ id_n = MaxSteps /\ Len(id_held) >= MaxSteps
  /\ TotalOver(id_init, <<"q">>) # 0
  /\ \E i, j \in 1..Len(id_hooks) : id_hooks[i] = "energy" /\ id_hooks[j] = "water"
  /\ Len(id_seen) >= 2

\* C33: the runs made with the identity step from the same initial state,
\* params, forcing source and step count return the same final state.
C33_RunsAgree ==
  \A i, j \in 1..Len(id_final) : id_final[i] = id_final[j]

\* C33 witness: two runs of at least one iteration have returned, and the
\* forcing source had a forcing to give.
C33_Witness ==
  /\ Len(id_final) >= 2 /\ id_n >= 1
  /\ ~id_stream.callable /\ Len(id_held) >= 2

====
